---- MODULE Spec2Model ----
(***************************************************************************)
(* Model of the e-mail assistant's event pipeline (src/event_manager.py):  *)
(* date extraction from free text, the per-user event store, reminder      *)
(* bookkeeping and retention pruning.                                      *)
(*                                                                         *)
(* Representation.  A Python str holding a date or a number is a sequence  *)
(* of one-character strings, e.g. <<"2","0","2","5","-","0","3","-","1",   *)
(* "5">>.  A text (subject, body) is the sequence of its tokens, the        *)
(* pieces between which no regular expression of the code can match; a     *)
(* token is a plain word or a date-like literal "a s1 b s2 c" (three       *)
(* fields and two separators), and Lex gives its parts.  The Cyrillic      *)
(* month names of the source are written in Latin transliteration.         *)
(***************************************************************************)
EXTENDS Integers, Sequences, FiniteSets, TLC

VARIABLES
    events,     \* EventManager.events: user id -> list of event records
    file,       \* the content of events.json as last written by save_events
    now,        \* datetime.now().date() as a proleptic Gregorian ordinal
    padsYear,   \* whether the C library's strftime pads %Y to four digits
    users,      \* UserManager.users: str(user id) -> the user's record
    users_file, \* the document in users_data.json
    conversations, \* ConversationHandler: user id -> the state of the dialogue
    context_user_data, \* context.user_data: user id -> the keys that are set
    chat,       \* the reminders Telegram has delivered, in order
    tasks,      \* the coroutines suspended at an await: <<their locals>>, or <<>>
    connection, \* EmailClient.connection of the client that is kept
    ret         \* the last call made and what it returned

\* The state of the bot's dialogues and jobs
bot_vars == <<conversations, context_user_data, chat, tasks>>

vars == <<events, file, now, padsYear, users, users_file, bot_vars, connection, ret>>

-----------------------------------------------------------------------------
(* Characters and strings                                                  *)

\* The characters that occur in dates, in code point order
\* ('-' 45 < '.' 46 < '/' 47 < '0' 48 < ... < '9' 57).
Ascii == <<"-", ".", "/", "0", "1", "2", "3", "4", "5", "6", "7", "8", "9">>

Digits == {"0", "1", "2", "3", "4", "5", "6", "7", "8", "9"}

\* ord(c), up to the offset of '-'
RankOf == [c \in {Ascii[i] : i \in 1..Len(Ascii)} |->
              CHOOSE i \in 1..Len(Ascii) : Ascii[i] = c]

Rank(c) == RankOf[c]

DigitVal(c) == Rank(c) - Rank("0")

DigitChar(n) == Ascii[Rank("0") + n]

IsDigits(s) == \A i \in 1..Len(s) : s[i] \in Digits

\* int(s) for a string of decimal digits
RECURSIVE ToInt(_)
ToInt(s) ==
    IF s = <<>> THEN 0
    ELSE 10 * ToInt(SubSeq(s, 1, Len(s) - 1)) + DigitVal(s[Len(s)])

\* str(n) for n >= 0: decimal digits, no padding
RECURSIVE ToStr(_)
ToStr(n) ==
    IF n < 10 THEN <<DigitChar(n)>>
    ELSE ToStr(n \div 10) \o <<DigitChar(n % 10)>>

\* zero padding on the left up to width w (never truncates)
RECURSIVE ZeroPad(_, _)
ZeroPad(s, w) == IF Len(s) >= w THEN s ELSE ZeroPad(<<"0">> \o s, w)

\* Python's str comparison s < t: lexicographic by code point
RECURSIVE StrLess(_, _)
StrLess(s, t) ==
    IF t = <<>> THEN FALSE
    ELSE IF s = <<>> THEN TRUE
    ELSE IF s[1] # t[1] THEN Rank(s[1]) < Rank(t[1])
    ELSE StrLess(Tail(s), Tail(t))

\* s.split(sep) for a one-character separator
RECURSIVE Split(_, _)
Split(s, sep) ==
    IF \A i \in 1..Len(s) : s[i] # sep THEN <<s>>
    ELSE LET k == CHOOSE i \in 1..Len(s) :
                     s[i] = sep /\ \A j \in 1..(i - 1) : s[j] # sep
         IN  <<SubSeq(s, 1, k - 1)>> \o Split(SubSeq(s, k + 1, Len(s)), sep)

-----------------------------------------------------------------------------
(* datetime: the proleptic Gregorian calendar of Python's datetime module  *)

MINYEAR == 1
MAXYEAR == 9999

IsLeap(y) == (y % 4 = 0) /\ ((y % 100 # 0) \/ (y % 400 = 0))

DaysInMonth(y, m) ==
    IF m = 2 THEN (IF IsLeap(y) THEN 29 ELSE 28)
    ELSE IF m \in {4, 6, 9, 11} THEN 30 ELSE 31

\* datetime(year, month, day) raises ValueError unless this holds
ValidDate(y, m, d) ==
    /\ y \in MINYEAR..MAXYEAR
    /\ m \in 1..12
    /\ d \in 1..DaysInMonth(y, m)

RECURSIVE DaysBeforeMonth(_, _)
DaysBeforeMonth(y, m) ==
    IF m = 1 THEN 0 ELSE DaysBeforeMonth(y, m - 1) + DaysInMonth(y, m - 1)

DaysBeforeYear(y) ==
    (y - 1) * 365 + ((y - 1) \div 4) - ((y - 1) \div 100) + ((y - 1) \div 400)

\* date(y, m, d).toordinal(): date differences are differences of ordinals
Ordinal(y, m, d) == DaysBeforeYear(y) + DaysBeforeMonth(y, m) + d

\* date_obj.strftime("%Y-%m-%d"): %m and %d are always two digits; %Y is
\* four digits where the C library pads it and the bare decimal year where
\* it does not (glibc), which shows for years below 1000.
Strftime(pads, y, m, d) ==
    (IF pads THEN ZeroPad(ToStr(y), 4) ELSE ToStr(y))
        \o <<"-">> \o ZeroPad(ToStr(m), 2) \o <<"-">> \o ZeroPad(ToStr(d), 2)

\* Parsing of a three-field date: <<ordinal>> of the date, or <<>> for
\* ValueError.  The format is given by its separator and the position of the
\* year.  %Y takes exactly four digits, %m and %d one or two.
ParseDate(s, sep, yearPos) ==
    LET f == Split(s, sep)
    IN  IF Len(f) # 3 THEN <<>>
        ELSE LET ys == f[yearPos]
                 ms == f[2]
                 ds == f[4 - yearPos]
             IN  IF /\ IsDigits(ys) /\ Len(ys) = 4
                    /\ IsDigits(ms) /\ Len(ms) \in 1..2
                    /\ IsDigits(ds) /\ Len(ds) \in 1..2
                    /\ ValidDate(ToInt(ys), ToInt(ms), ToInt(ds))
                 THEN <<Ordinal(ToInt(ys), ToInt(ms), ToInt(ds))>>
                 ELSE <<>>

-----------------------------------------------------------------------------
(* Texts                                                                   *)

\* A date-like literal "a s1 b s2 c" with a numeric middle field.
Num(a, s1, b, s2, c) == [a |-> a, s1 |-> s1, b |-> b, w |-> "", s2 |-> s2, c |-> c]

\* A date-like literal "a w s2 c" whose middle field is the word w; s2 is
\* " " (whitespace) or ". " (a full stop, then whitespace).
Named(a, w, s2, c) == [a |-> a, s1 |-> " ", b |-> <<>>, w |-> w, s2 |-> s2, c |-> c]

\* Any other word of the text.
Word(w) == [a |-> <<>>, s1 |-> "", b |-> <<>>, w |-> w, s2 |-> "", c |-> <<>>]

\* The parts of the tokens that occur in the model's texts.
Lex(tok) ==
    CASE tok = "10.03.2025" -> Num(<<"1", "0">>, ".", <<"0", "3">>, ".", <<"2", "0", "2", "5">>)
      [] tok = "2025-03-11" -> Num(<<"2", "0", "2", "5">>, "-", <<"0", "3">>, "-", <<"1", "1">>)
      [] tok = "13 marta 2025" -> Named(<<"1", "3">>, "marta", " ", <<"2", "0", "2", "5">>)
      [] tok = "18.03.2025" -> Num(<<"1", "8">>, ".", <<"0", "3">>, ".", <<"2", "0", "2", "5">>)
      [] tok = "18/3/2025" -> Num(<<"1", "8">>, "/", <<"3">>, "/", <<"2", "0", "2", "5">>)
      [] tok = "31.02.2025" -> Num(<<"3", "1">>, ".", <<"0", "2">>, ".", <<"2", "0", "2", "5">>)
      [] tok = "05.01.999" -> Num(<<"0", "5">>, ".", <<"0", "1">>, ".", <<"9", "9", "9">>)
      [] tok = "15.03.2025" -> Num(<<"1", "5">>, ".", <<"0", "3">>, ".", <<"2", "0", "2", "5">>)
      [] tok = "15/03/2025" -> Num(<<"1", "5">>, "/", <<"0", "3">>, "/", <<"2", "0", "2", "5">>)
      [] tok = "2025-03-15" -> Num(<<"2", "0", "2", "5">>, "-", <<"0", "3">>, "-", <<"1", "5">>)
      [] tok = "2025-04-01" -> Num(<<"2", "0", "2", "5">>, "-", <<"0", "4">>, "-", <<"0", "1">>)
      [] tok = "15 MARTA 2025" -> Named(<<"1", "5">>, "MARTA", " ", <<"2", "0", "2", "5">>)
      [] tok = "15 mar. 2025" -> Named(<<"1", "5">>, "mar", ". ", <<"2", "0", "2", "5">>)
      [] tok = "5 maya 2025" -> Named(<<"5">>, "maya", " ", <<"2", "0", "2", "5">>)
      [] tok = "15.03.25" -> Num(<<"1", "5">>, ".", <<"0", "3">>, ".", <<"2", "5">>)
      [] tok = "15.03.49" -> Num(<<"1", "5">>, ".", <<"0", "3">>, ".", <<"4", "9">>)
      [] tok = "15.03.50" -> Num(<<"1", "5">>, ".", <<"0", "3">>, ".", <<"5", "0">>)
      [] tok = "15.03.72" -> Num(<<"1", "5">>, ".", <<"0", "3">>, ".", <<"7", "2">>)
      [] tok = "15.03.0072" -> Num(<<"1", "5">>, ".", <<"0", "3">>, ".", <<"0", "0", "7", "2">>)
      [] tok = "0072-03-15" -> Num(<<"0", "0", "7", "2">>, "-", <<"0", "3">>, "-", <<"1", "5">>)
      [] tok = "15.03.0000" -> Num(<<"1", "5">>, ".", <<"0", "3">>, ".", <<"0", "0", "0", "0">>)
      [] tok = "29.02.2025" -> Num(<<"2", "9">>, ".", <<"0", "2">>, ".", <<"2", "0", "2", "5">>)
      [] tok = "29.02.2024" -> Num(<<"2", "9">>, ".", <<"0", "2">>, ".", <<"2", "0", "2", "4">>)
      [] tok = "15.13.2025" -> Num(<<"1", "5">>, ".", <<"1", "3">>, ".", <<"2", "0", "2", "5">>)
      [] tok = "0.3.2025" -> Num(<<"0">>, ".", <<"3">>, ".", <<"2", "0", "2", "5">>)
      [] tok = "2025-02-30" -> Num(<<"2", "0", "2", "5">>, "-", <<"0", "2">>, "-", <<"3", "0">>)
      [] tok = "31 aprelya 2025" -> Named(<<"3", "1">>, "aprelya", " ", <<"2", "0", "2", "5">>)
      [] tok = "115.03.2025" -> Num(<<"1", "1", "5">>, ".", <<"0", "3">>, ".", <<"2", "0", "2", "5">>)
      [] OTHER -> Word(tok)

\* str.lower() on the words of the model's texts
Lower(w) ==
    CASE w = "MARTA" -> "marta"
      [] w = "Invoice" -> "invoice"
      [] w = "Meeting" -> "meeting"
      [] OTHER -> w

\* month_names
month_names ==
    [w \in {"yanvarya", "fevralya", "marta", "aprelya", "maya", "iyunya",
            "iyulya", "avgusta", "sentyabrya", "oktyabrya", "noyabrya",
            "dekabrya", "yanv", "fev", "mar", "apr", "maj", "iyun", "iyul",
            "avg", "sen", "okt", "noya", "dek"} |->
        CASE w \in {"yanvarya", "yanv"} -> 1
          [] w \in {"fevralya", "fev"} -> 2
          [] w \in {"marta", "mar"} -> 3
          [] w \in {"aprelya", "apr"} -> 4
          [] w \in {"maya", "maj"} -> 5
          [] w \in {"iyunya", "iyun"} -> 6
          [] w \in {"iyulya", "iyul"} -> 7
          [] w \in {"avgusta", "avg"} -> 8
          [] w \in {"sentyabrya", "sen"} -> 9
          [] w \in {"oktyabrya", "okt"} -> 10
          [] w \in {"noyabrya", "noya"} -> 11
          [] w \in {"dekabrya", "dek"} -> 12]

FullMonths ==
    {"yanvarya", "fevralya", "marta", "aprelya", "maya", "iyunya", "iyulya",
     "avgusta", "sentyabrya", "oktyabrya", "noyabrya", "dekabrya"}

AbbrMonths ==
    {"yanv", "fev", "mar", "apr", "maj", "iyun", "iyul", "avg", "sen", "okt",
     "noya", "dek"}

\* The six regular expressions, in the order the code tries them.
patterns == <<"DD.MM.YYYY", "DD/MM/YYYY", "YYYY-MM-DD", "D month YYYY",
              "D mon YYYY", "DD.MM.YY">>

\* re.finditer(pattern, text.lower()) yields the token with the parts t.
\* Every pattern is anchored by \b on both sides, the fields are runs of
\* digits and the separators are not digits, so a match covers the three
\* fields exactly.
Matches(p, t) ==
    CASE p = "DD.MM.YYYY" ->
            /\ t.w = "" /\ IsDigits(t.a) /\ IsDigits(t.b) /\ IsDigits(t.c)
            /\ Len(t.a) \in 1..2 /\ t.s1 = "." /\ Len(t.b) \in 1..2
            /\ t.s2 = "." /\ Len(t.c) = 4
      [] p = "DD/MM/YYYY" ->
            /\ t.w = "" /\ IsDigits(t.a) /\ IsDigits(t.b) /\ IsDigits(t.c)
            /\ Len(t.a) \in 1..2 /\ t.s1 = "/" /\ Len(t.b) \in 1..2
            /\ t.s2 = "/" /\ Len(t.c) = 4
      [] p = "YYYY-MM-DD" ->
            /\ t.w = "" /\ IsDigits(t.a) /\ IsDigits(t.b) /\ IsDigits(t.c)
            /\ Len(t.a) = 4 /\ t.s1 = "-" /\ Len(t.b) \in 1..2
            /\ t.s2 = "-" /\ Len(t.c) \in 1..2
      [] p = "D month YYYY" ->
            /\ IsDigits(t.a) /\ IsDigits(t.c)
            /\ Len(t.a) \in 1..2 /\ t.s1 = " " /\ Lower(t.w) \in FullMonths
            /\ t.s2 = " " /\ Len(t.c) = 4
      [] p = "D mon YYYY" ->
            /\ IsDigits(t.a) /\ IsDigits(t.c)
            /\ Len(t.a) \in 1..2 /\ t.s1 = " " /\ Lower(t.w) \in AbbrMonths
            /\ t.s2 \in {" ", ". "} /\ Len(t.c) = 4
      [] p = "DD.MM.YY" ->
            /\ t.w = "" /\ IsDigits(t.a) /\ IsDigits(t.b) /\ IsDigits(t.c)
            /\ Len(t.a) \in 1..2 /\ t.s1 \in {".", "/"} /\ Len(t.b) \in 1..2
            /\ t.s2 \in {".", "/"} /\ Len(t.c) \in 2..4

\* "year = 2000 + year if year < 50 else 1900 + year", under "if year < 100"
YearCorrection(year) ==
    IF year < 100
    THEN (IF year < 50 THEN 2000 + year ELSE 1900 + year)
    ELSE year

\* <<day, month, year>> as the code reads them from match.groups()
Fields(p, t) ==
    IF Lower(t.w) \in DOMAIN month_names
    THEN <<ToInt(t.a), month_names[Lower(t.w)], ToInt(t.c)>>
    ELSE IF p = "YYYY-MM-DD"
    THEN <<ToInt(t.c), ToInt(t.b), ToInt(t.a)>>
    ELSE <<ToInt(t.a), ToInt(t.b), YearCorrection(ToInt(t.c))>>

\* The date string one match contributes: <<date_str>>, or <<>> when
\* datetime(year, month, day) raises ValueError.
DateOfMatch(pads, p, t) ==
    LET f == Fields(p, t)
    IN  IF ValidDate(f[3], f[2], f[1])
        THEN <<Strftime(pads, f[3], f[2], f[1])>>
        ELSE <<>>

InSeq(x, s) == \E i \in 1..Len(s) : s[i] = x

\* "if date_str not in dates: dates.append(date_str)"
AppendNew(dates, found) ==
    IF found # <<>> /\ ~InSeq(found[1], dates)
    THEN Append(dates, found[1])
    ELSE dates

\* The inner loop: all matches of one pattern, left to right.
RECURSIVE ScanPattern(_, _, _, _)
ScanPattern(pads, p, text, dates) ==
    IF text = <<>> THEN dates
    ELSE ScanPattern(pads, p, Tail(text),
                     IF Matches(p, Lex(Head(text)))
                     THEN AppendNew(dates, DateOfMatch(pads, p, Lex(Head(text))))
                     ELSE dates)

\* The outer loop: the patterns in order, from the k-th on.
RECURSIVE ScanFrom(_, _, _, _)
ScanFrom(pads, k, text, dates) ==
    IF k > Len(patterns) THEN dates
    ELSE ScanFrom(pads, k + 1, text, ScanPattern(pads, patterns[k], text, dates))

\* extract_dates_from_text on a platform whose strftime pads the year or not
ExtractDates(pads, text) == ScanFrom(pads, 1, text, <<>>)

-----------------------------------------------------------------------------
(* Bounds and inputs                                                       *)

\* Events in the store, all users together
MaxEvents == 2

\* Midnights that pass
MaxTicks == 1

\* Tokens of a text given to extract_dates_from_text
MaxTokens == 2

Users == {1, 2}

\* The day the run starts: 2025-03-10
Today0 == Ordinal(2025, 3, 10)

Email(subject, body) == [subject |-> subject, body |-> body]

\* The e-mails that arrive.  Their dates are today (10.03.2025), tomorrow,
\* in 3 days and in 8 days, an impossible date and a year below 1000.
Emails ==
    {Email(<<"Invoice">>, <<"2025-03-11", "18.03.2025">>),
     Email(<<"Invoice">>, <<"18/3/2025", "31.02.2025">>),
     Email(<<"Meeting", "10.03.2025">>, <<"13 marta 2025">>),
     Email(<<"Invoice">>, <<"05.01.999">>)}

\* An e-mail without a date
Undated == Email(<<"newsletter">>, <<"hello">>)

\* The date-like literals given to extract_dates_from_text on its own
DateTokens ==
    {"15.03.2025", "15/03/2025", "2025-03-15", "15 MARTA 2025", "15 mar. 2025",
     "15.03.25", "2025-04-01", "5 maya 2025", "15.03.49", "15.03.50", "15.03.72",
     "15.03.0072", "0072-03-15", "15.03.0000", "05.01.999", "29.02.2024",
     "29.02.2025", "31.02.2025", "15.13.2025", "0.3.2025", "2025-02-30",
     "31 aprelya 2025", "115.03.2025", "Invoice"}

RECURSIVE SeqsUpTo(_, _)
SeqsUpTo(S, n) ==
    IF n = 0 THEN {<<>>}
    ELSE LET shorter == SeqsUpTo(S, n - 1)
         IN  shorter \cup {Append(q, x) : q \in shorter, x \in S}

Texts == SeqsUpTo(DateTokens, MaxTokens)

\* email_subject + " " + email_body
EmailText(email_subject, email_body) == email_subject \o email_body

\* ExtractDates on the text of every e-mail that arrives, computed once
ExtractMemo ==
    [pads \in BOOLEAN |->
        [text \in {EmailText(e.subject, e.body) : e \in Emails \cup {Undated}} |->
            ExtractDates(pads, text)]]

\* ExtractDates on every text given to it on its own, computed once
TextMemo == [pads \in BOOLEAN |-> [text \in Texts |-> ExtractDates(pads, text)]]

extract_dates_from_text(text) ==
    IF text \in DOMAIN ExtractMemo[padsYear]
    THEN ExtractMemo[padsYear][text]
    ELSE TextMemo[padsYear][text]

UpcomingDays == {0, 7}

PruneDays == {0, 30, 400000}

-----------------------------------------------------------------------------
(* The event store                                                         *)

\* hashlib.md5(f"{user_id}_{email_subject}_{date}".encode()).hexdigest()[:10]:
\* the digest is represented by the triple it is taken over (the digest of
\* distinct triples is taken to be distinct).
Fingerprint(user_id, email_subject, date) ==
    [user |-> user_id, subject |-> email_subject, date |-> date]

\* email_subject[:100] and email_body[:200]: the texts of the model are
\* shorter than either limit, so the slices keep them whole.
Title(email_subject) == email_subject
Preview(email_body) == email_body

\* Mutant of NewEvent: the id is taken over the time of creation instead of
\* the date.
NewEventTimeId(user_id, email_subject, email_body, date) ==
    [id |-> Fingerprint(user_id, email_subject, <<now>>),
     title |-> Title(email_subject),
     date |-> date,
     original_date |-> date,
     created_at |-> now,
     reminder_sent |-> FALSE,
     email_preview |-> Preview(email_body)]

\* The event dict built for one extracted date.
NewEvent(user_id, email_subject, email_body, date) ==
    [id |-> Fingerprint(user_id, email_subject, date),
     title |-> Title(email_subject),
     date |-> date,
     original_date |-> date,
     created_at |-> now,
     reminder_sent |-> FALSE,
     email_preview |-> Preview(email_body)]

\* Mutant of IsNewId: the check for an existing id is left out.
IsNewIdAlways(id, user_events) == TRUE

\* "event["id"] not in existing_ids"
IsNewId(id, user_events) == \A i \in 1..Len(user_events) : user_events[i].id # id

\* The loop over the extracted dates: <<the user's list, events_added>>.
RECURSIVE AddLoop(_, _, _, _, _, _)

\* Mutant of AddLoop: events_added also gets the events that were already
\* stored.
AddLoopReportsAll(user_id, email_subject, email_body, dates, user_events, events_added) ==
    IF dates = <<>> THEN <<user_events, events_added>>
    ELSE LET event == NewEvent(user_id, email_subject, email_body, Head(dates))
         IN  AddLoop(user_id, email_subject, email_body, Tail(dates),
                     IF IsNewId(event.id, user_events)
                     THEN Append(user_events, event) ELSE user_events,
                     Append(events_added, event))

AddLoop(user_id, email_subject, email_body, dates, user_events, events_added) ==
    IF dates = <<>> THEN <<user_events, events_added>>
    ELSE LET event == NewEvent(user_id, email_subject, email_body, Head(dates))
         IN  IF IsNewId(event.id, user_events)
             THEN AddLoop(user_id, email_subject, email_body, Tail(dates),
                          Append(user_events, event), Append(events_added, event))
             ELSE AddLoop(user_id, email_subject, email_body, Tail(dates),
                          user_events, events_added)

\* self.events.get(user_id, [])
get_user_events(user_id) ==
    IF user_id \in DOMAIN events THEN events[user_id] ELSE <<>>

\* json.dump(self.events, f): the keys are written as str(user_id)
JsonDump(evs) ==
    [k \in {ToStr(u) : u \in DOMAIN evs} |-> evs[ToInt(k)]]

\* save_events: on success the file holds the whole store; a failure is
\* caught and logged, and the file is left as it was (when open() fails) or
\* unreadable (when the write fails after open() truncated the file).
Corrupt == [corrupt |-> TRUE]

save_events(evs, w) ==
    CASE w = "ok" -> JsonDump(evs)
      [] w = "open fails" -> file
      [] w = "write fails" -> Corrupt

\* The record of a call: the operation, its arguments, the day it was made
\* and what it returned
Call(op, args, val) == [op |-> op, args |-> args, at |-> now, val |-> val]


\* datetime.strptime(s, fmt).date(): <<ordinal>>, or <<>> for ValueError
strptime(s, fmt) ==
    CASE fmt = "%Y-%m-%d" -> ParseDate(s, "-", 1)
      [] fmt = "%d.%m.%Y" -> ParseDate(s, ".", 3)
      [] fmt = "%d/%m/%Y" -> ParseDate(s, "/", 3)
      [] fmt = "%Y-%m-%d %H:%M:%S" ->
            LET f == Split(s, " ")
            IN  IF Len(f) # 2 THEN <<>>
                ELSE LET t == Split(f[2], ":")
                     IN  IF /\ Len(t) = 3
                            /\ \A i \in 1..3 : IsDigits(t[i]) /\ Len(t[i]) \in 1..2
                            /\ ToInt(t[1]) < 24 /\ ToInt(t[2]) < 60 /\ ToInt(t[3]) < 62
                         THEN ParseDate(f[1], "-", 1)
                         ELSE <<>>

\* "for fmt in (...): try: ... break / except ValueError: continue"
RECURSIVE TryFormats(_, _)
TryFormats(s, fmts) ==
    IF fmts = <<>> THEN <<>>
    ELSE IF strptime(s, Head(fmts)) # <<>> THEN strptime(s, Head(fmts))
    ELSE TryFormats(s, Tail(fmts))

ReminderFormats == <<"%Y-%m-%d", "%d.%m.%Y", "%d/%m/%Y">>

UpcomingFormats == <<"%Y-%m-%d", "%d.%m.%Y", "%d/%m/%Y", "%Y-%m-%d %H:%M:%S">>

\* The date strings the e-mails give, and TryFormats on each of them,
\* computed once
DateStrings ==
    UNION {{ExtractMemo[pads][text][i] : i \in 1..Len(ExtractMemo[pads][text])} :
              <<pads, text>> \in BOOLEAN \X DOMAIN ExtractMemo[TRUE]}

ParseMemo ==
    [fmts \in {ReminderFormats, UpcomingFormats} |->
        [s \in DateStrings |-> TryFormats(s, fmts)]]

ParseStored(s, fmts) == ParseMemo[fmts][s]

\* event.copy() with event_with_days["days_left"] = days_left
WithDaysLeft(e, days_left) ==
    [id |-> e.id, title |-> e.title, date |-> e.date,
     original_date |-> e.original_date, created_at |-> e.created_at,
     reminder_sent |-> e.reminder_sent, email_preview |-> e.email_preview,
     days_left |-> days_left]

\* Mutant of InWindow: today itself is left out.
InWindowStrict(event_date, today, future_date) ==
    today < event_date /\ event_date <= future_date

\* "if today <= event_date <= future_date"
InWindow(event_date, today, future_date) ==
    today <= event_date /\ event_date <= future_date

\* The loop of get_upcoming_events over the user's list
RECURSIVE UpcomingLoop(_, _, _, _)
UpcomingLoop(user_events, today, future_date, upcoming) ==
    IF user_events = <<>> THEN upcoming
    ELSE LET event == Head(user_events)
             d == ParseStored(event.date, UpcomingFormats)
         IN  UpcomingLoop(Tail(user_events), today, future_date,
                 IF /\ event.date # <<>>
                    /\ d # <<>>
                    /\ InWindow(d[1], today, future_date)
                 THEN Append(upcoming, WithDaysLeft(event, d[1] - today))
                 ELSE upcoming)

\* list.sort(key=lambda x: x.get("date", "")): a stable sort on the date
\* strings, compared as strings
RECURSIVE SortByDate(_)
SortByDate(s) ==
    IF s = <<>> THEN <<>>
    ELSE LET front == SortByDate(SubSeq(s, 1, Len(s) - 1))
             x == s[Len(s)]
             k == Cardinality({i \in 1..Len(front) : ~StrLess(x.date, front[i].date)})
         IN  SubSeq(front, 1, k) \o <<x>> \o SubSeq(front, k + 1, Len(front))

upcoming_events(user_id, days) ==
    IF user_id \notin DOMAIN events THEN <<>>
    ELSE SortByDate(UpcomingLoop(events[user_id], now, now + days, <<>>))

\* "if days_until in [1, 3, 7] and days_until >= 0"
IsDue(days_until) == days_until \in {1, 3, 7} /\ days_until >= 0

\* Mutant of ReminderLoop: an event whose reminder was sent is due again.
RECURSIVE ReminderLoopIgnoresFlag(_, _, _, _)
ReminderLoopIgnoresFlag(user_id, user_events, today, reminders) ==
    IF user_events = <<>> THEN reminders
    ELSE LET event == Head(user_events)
             d == ParseStored(event.date, ReminderFormats)
         IN  ReminderLoopIgnoresFlag(user_id, Tail(user_events), today,
                 IF /\ event.date # <<>>
                    /\ d # <<>>
                    /\ IsDue(d[1] - today)
                 THEN Append(reminders, <<user_id, event, d[1] - today>>)
                 ELSE reminders)

\* The inner loop of get_events_for_reminder
RECURSIVE ReminderLoop(_, _, _, _)
ReminderLoop(user_id, user_events, today, reminders) ==
    IF user_events = <<>> THEN reminders
    ELSE LET event == Head(user_events)
             d == ParseStored(event.date, ReminderFormats)
         IN  ReminderLoop(user_id, Tail(user_events), today,
                 IF /\ ~event.reminder_sent
                    /\ event.date # <<>>
                    /\ d # <<>>
                    /\ IsDue(d[1] - today)
                 THEN Append(reminders, <<user_id, event, d[1] - today>>)
                 ELSE reminders)

\* The outer loop over self.events.items(); the users are visited in
\* ascending order of their ids (the dict's insertion order is not kept in
\* the model).
RECURSIVE ReminderUsers(_, _, _)
ReminderUsers(ids, today, reminders) ==
    IF ids = {} THEN reminders
    ELSE LET u == CHOOSE x \in ids : \A y \in ids : x <= y
         IN  ReminderUsers(ids \ {u}, today,
                           ReminderLoop(u, events[u], today, reminders))

events_for_reminder == ReminderUsers(DOMAIN events, now, <<>>)

\* Mutant of MarkFirst: the flag of the first event with the id is inverted.
MarkFirstToggles(user_events, event_id) ==
    IF \A i \in 1..Len(user_events) : user_events[i].id # event_id
    THEN user_events
    ELSE LET k == CHOOSE i \in 1..Len(user_events) :
                     /\ user_events[i].id = event_id
                     /\ \A j \in 1..(i - 1) : user_events[j].id # event_id
         IN  [user_events EXCEPT ![k].reminder_sent = ~@]

\* The loop of mark_reminder_sent: the first event with the id is flagged
MarkFirst(user_events, event_id) ==
    IF \A i \in 1..Len(user_events) : user_events[i].id # event_id
    THEN user_events
    ELSE LET k == CHOOSE i \in 1..Len(user_events) :
                     /\ user_events[i].id = event_id
                     /\ \A j \in 1..(i - 1) : user_events[j].id # event_id
         IN  [user_events EXCEPT ![k].reminder_sent = TRUE]

\* "[e for e in self.events[user_id] if e["id"] != event_id]"
RECURSIVE Without(_, _)
Without(user_events, event_id) ==
    IF user_events = <<>> THEN <<>>
    ELSE IF Head(user_events).id # event_id
    THEN <<Head(user_events)>> \o Without(Tail(user_events), event_id)
    ELSE Without(Tail(user_events), event_id)

\* The test of clear_old_events on one event: kept when the date string is
\* empty, or when it parses and is not before the cutoff
Kept(event, cutoff_date) ==
    LET d == ParseStored(event.date, ReminderFormats)
    IN  \/ event.date = <<>>
        \/ (d # <<>> /\ d[1] >= cutoff_date)

RECURSIVE KeepLoop(_, _)
KeepLoop(user_events, cutoff_date) ==
    IF user_events = <<>> THEN <<>>
    ELSE IF Kept(Head(user_events), cutoff_date)
    THEN <<Head(user_events)>> \o KeepLoop(Tail(user_events), cutoff_date)
    ELSE KeepLoop(Tail(user_events), cutoff_date)

RECURSIVE TotalEvents(_, _)
TotalEvents(evs, ids) ==
    IF ids = {} THEN 0
    ELSE LET u == CHOOSE x \in ids : TRUE
         IN  Len(evs[u]) + TotalEvents(evs, ids \ {u})

-----------------------------------------------------------------------------
(* Operations                                                              *)

\* The ids a caller passes for a user: those of the user's events, and one
\* of no event
EventIds(user_id) ==
    {get_user_events(user_id)[i].id : i \in 1..Len(get_user_events(user_id))}
        \cup {Fingerprint(user_id, <<"Invoice">>, <<>>)}

Init ==
    /\ events = <<>>
    /\ file = <<>>
    /\ now = Today0
    /\ padsYear \in BOOLEAN
    /\ users = <<>>
    /\ users_file = <<>>
    /\ conversations = <<>>
    /\ context_user_data = <<>>
    /\ chat = <<>>
    /\ tasks = [scan |-> <<>>, check |-> <<>>, reminders |-> <<>>]
    /\ connection = "None"
    /\ ret = Call("__init__", <<>>, "None")

extract_dates(text) ==
    /\ ret' = Call("extract_dates_from_text", <<text>>, extract_dates_from_text(text))
    /\ UNCHANGED <<events, file, now, padsYear, users, users_file, bot_vars, connection>>

add_event_from_email(user_id, email_subject, email_body, w) ==
    LET dates == extract_dates_from_text(EmailText(email_subject, email_body))
        r == AddLoop(user_id, email_subject, email_body, dates,
                     get_user_events(user_id), <<>>)
        evs == IF dates = <<>> THEN events
               ELSE [u \in DOMAIN events \cup {user_id} |->
                        IF u = user_id THEN r[1] ELSE events[u]]
    IN  /\ TotalEvents(evs, DOMAIN evs) <= MaxEvents
        /\ events' = evs
        /\ file' = IF r[2] # <<>> THEN save_events(evs, w) ELSE file
        /\ ret' = Call("add_event_from_email",
                       <<user_id, email_subject, email_body>>, r[2])
        /\ UNCHANGED <<now, padsYear, users, users_file, bot_vars, connection>>

get_upcoming_events(user_id, days) ==
    /\ ret' = Call("get_upcoming_events", <<user_id, days>>,
                   upcoming_events(user_id, days))
    /\ UNCHANGED <<events, file, now, padsYear, users, users_file, bot_vars, connection>>

get_events_for_reminder ==
    /\ ret' = Call("get_events_for_reminder", <<>>, events_for_reminder)
    /\ UNCHANGED <<events, file, now, padsYear, users, users_file, bot_vars, connection>>

mark_reminder_sent(user_id, event_id, w) ==
    /\ IF user_id \in DOMAIN events
       THEN /\ events' = [events EXCEPT ![user_id] = MarkFirst(@, event_id)]
            /\ file' = save_events(events', w)
       ELSE UNCHANGED <<events, file>>
    /\ ret' = Call("mark_reminder_sent", <<user_id, event_id>>, "None")
    /\ UNCHANGED <<now, padsYear, users, users_file, bot_vars, connection>>

delete_event(user_id, event_id, w) ==
    LET found == /\ user_id \in DOMAIN events
                 /\ Len(Without(events[user_id], event_id)) # Len(events[user_id])
    IN  /\ IF user_id \in DOMAIN events
           THEN events' = [events EXCEPT ![user_id] = Without(@, event_id)]
           ELSE UNCHANGED events
        /\ file' = IF found THEN save_events(events', w) ELSE file
        /\ ret' = Call("delete_event", <<user_id, event_id>>, found)
        /\ UNCHANGED <<now, padsYear, users, users_file, bot_vars, connection>>

\* date - timedelta(days) raises OverflowError below date.min, before the
\* store is touched
clear_old_events(days, w) ==
    LET cutoff_date == now - days
        new_events == [u \in DOMAIN events |-> KeepLoop(events[u], cutoff_date)]
        evs == [u \in {x \in DOMAIN events : new_events[x] # <<>>} |-> new_events[u]]
        removed_count == TotalEvents(events, DOMAIN events) - TotalEvents(evs, DOMAIN evs)
    IN  /\ IF cutoff_date < Ordinal(MINYEAR, 1, 1)
           THEN /\ UNCHANGED <<events, file>>
                /\ ret' = Call("clear_old_events", <<days>>, "OverflowError")
           ELSE /\ events' = evs
                /\ file' = IF removed_count > 0 THEN save_events(evs, w) ELSE file
                /\ ret' = Call("clear_old_events", <<days>>, "None")
        /\ UNCHANGED <<now, padsYear, users, users_file, bot_vars, connection>>

\* Midnight passes
Tick ==
    /\ now < Today0 + MaxTicks
    /\ now' = now + 1
    /\ UNCHANGED <<events, file, padsYear, users, users_file, bot_vars, connection, ret>>

Writes == {"ok"}

Next ==
    \/ \E u \in Users, e \in Emails, w \in Writes :
           add_event_from_email(u, e.subject, e.body, w)
    \/ \E u \in Users, d \in UpcomingDays : get_upcoming_events(u, d)
    \/ get_events_for_reminder
    \/ \E u \in Users, w \in Writes :
           \E id \in EventIds(u) : mark_reminder_sent(u, id, w)
    \/ \E u \in Users, w \in Writes :
           \E id \in EventIds(u) : delete_event(u, id, w)
    \/ \E d \in PruneDays, w \in Writes : clear_old_events(d, w)
    \/ Tick

Spec == Init /\ [][Next]_vars

\* The extraction on its own, on every text of up to MaxTokens tokens
NextDates == \E text \in Texts : extract_dates(text)

SpecDates == Init /\ [][NextDates]_vars

-----------------------------------------------------------------------------
(* What the claims speak of                                                *)

\* self.events.get(user_id, []) in a given store
UserList(evs, user_id) == IF user_id \in DOMAIN evs THEN evs[user_id] ELSE <<>>

Range(s) == {s[i] : i \in 1..Len(s)}

\* <<year, month, day>> that a stored date string "y-m-d" names, whatever
\* the number of digits of its fields
DateFields(s) ==
    LET f == Split(s, "-") IN <<ToInt(f[1]), ToInt(f[2]), ToInt(f[3])>>

\* The calendar day a stored date string names, as an ordinal
CalMemo == [s \in DateStrings |->
               Ordinal(DateFields(s)[1], DateFields(s)[2], DateFields(s)[3])]

Cal(s) == CalMemo[s]

\* A normalized YYYY-MM-DD string of a valid calendar date
IsIsoDate(s) ==
    /\ Len(s) = 10
    /\ s[5] = "-" /\ s[8] = "-"
    /\ \A i \in {1, 2, 3, 4, 6, 7, 9, 10} : s[i] \in Digits
    /\ ValidDate(DateFields(s)[1], DateFields(s)[2], DateFields(s)[3])

\* The step is a call of op made today (not a midnight, not a repetition
\* that changes nothing)
IsCall(op) == ret.op = op /\ ret.at = now

-----------------------------------------------------------------------------
(* C1 - C4: the store                                                      *)

\* The e-mail (subject, body) has been processed for the user and none of
\* its events has been deleted or pruned since: every date extracted from
\* it has its event in the user's list.
Processed(evs, user_id, email_subject, email_body) ==
    \A d \in Range(extract_dates_from_text(EmailText(email_subject, email_body))) :
        \E e \in Range(UserList(evs, user_id)) :
            e.id = Fingerprint(user_id, email_subject, d)

\* C1: add_event_from_email is idempotent. A call leaves its e-mail
\* processed; every step but a delete or a prune keeps a processed e-mail
\* processed (other calls and midnights may come in between); and a call
\* for a processed e-mail returns the empty list and leaves the user's
\* event list as it was.
C1_Idempotent ==
    [][/\ (ret'.op = "add_event_from_email" /\ now' = now) =>
              Processed(events', ret'.args[1], ret'.args[2], ret'.args[3])
       /\ \A u \in Users, e \in Emails :
              (/\ Processed(events, u, e.subject, e.body)
               /\ \/ ret'.op \notin {"delete_event", "clear_old_events"}
                  \/ now' # now)
              => Processed(events', u, e.subject, e.body)
       /\ (/\ ret'.op = "add_event_from_email" /\ now' = now
           /\ Processed(events, ret'.args[1], ret'.args[2], ret'.args[3]))
          => (/\ ret'.val = <<>>
              /\ UserList(events', ret'.args[1]) = UserList(events, ret'.args[1]))]_vars

\* A repeated e-mail with dates in it has been processed: nothing was added.
C1_Witness ==
    /\ IsCall("add_event_from_email")
    /\ ret.val = <<>>
    /\ extract_dates_from_text(EmailText(ret.args[2], ret.args[3])) # <<>>
    /\ \A d \in Range(extract_dates_from_text(EmailText(ret.args[2], ret.args[3]))) :
           \E e \in Range(UserList(events, ret.args[1])) :
               /\ e.id = Fingerprint(ret.args[1], ret.args[2], d)
               /\ e.email_preview = ret.args[3]

\* C2: event ids are unique per user: no user's list holds two events with
\* the same id, and the id of each event is the fingerprint of (user id,
\* subject, normalized date).
C2_UniqueIds ==
    \A u \in DOMAIN events :
        \A i, j \in 1..Len(events[u]) :
            /\ (i # j => events[u][i].id # events[u][j].id)
            /\ events[u][i].id = Fingerprint(u, events[u][i].title, events[u][i].date)

\* An e-mail whose date was already stored under the same subject came in:
\* it added fewer events than it has dates, and the list holds two events.
C2_Witness ==
    /\ IsCall("add_event_from_email")
    /\ Len(ret.val) < Len(extract_dates_from_text(EmailText(ret.args[2], ret.args[3])))
    /\ Len(UserList(events, ret.args[1])) >= 2

\* C3: get_events_for_reminder returns (user_id, event, days_until) for
\* exactly the stored events whose reminder_sent is false and whose
\* days_until = event date - today is one of 0, 1, 3, 7.
C3_DueReminders ==
    IsCall("get_events_for_reminder") =>
        /\ Range(ret.val) =
              {<<u, e, Cal(e.date) - now>> :
                  <<u, e>> \in {x \in Users \X UNION {Range(UserList(events, v)) : v \in Users} :
                                   /\ x[2] \in Range(UserList(events, x[1]))
                                   /\ ~x[2].reminder_sent
                                   /\ Cal(x[2].date) - now \in {0, 1, 3, 7}}}
        /\ Cardinality(Range(ret.val)) = Len(ret.val)

\* C4: get_upcoming_events(user_id, days) returns exactly the user's events
\* dated from today to today + days, both included, in ascending order of
\* their calendar dates; and the empty list for an unknown user.
C4_Upcoming ==
    IsCall("get_upcoming_events") =>
        LET u == ret.args[1]
            days == ret.args[2]
            InRange(e) == now <= Cal(e.date) /\ Cal(e.date) <= now + days
            expected == SelectSeq(UserList(events, u), InRange)
        IN  /\ u \notin DOMAIN events => ret.val = <<>>
            /\ Len(ret.val) = Len(expected)
            /\ \A e \in Range(expected) :
                   \E i \in 1..Len(ret.val) :
                       /\ ret.val[i].id = e.id
                       /\ ret.val[i].date = e.date
                       /\ ret.val[i].title = e.title
                       /\ ret.val[i].reminder_sent = e.reminder_sent
            /\ \A i, j \in 1..Len(ret.val) :
                   i < j => Cal(ret.val[i].date) <= Cal(ret.val[j].date)

\* Two events in the window were stored latest first and came back earliest
\* first, one of them dated today and the other today + days.
C4_Witness ==
    /\ IsCall("get_upcoming_events")
    /\ Len(ret.val) = 2
    /\ Len(UserList(events, ret.args[1])) = 2
    /\ ret.val[1].id = events[ret.args[1]][2].id
    /\ Cal(ret.val[1].date) = now
    /\ Cal(ret.val[2].date) = now + ret.args[2]

-----------------------------------------------------------------------------
(* C5 - C8: the extraction, as a reader of the text understands the dates  *)

\* The grammar a token is written in; "none" when in no recognized one
Grammar(tok) ==
    LET t == Lex(tok)
        numeric == t.w = "" /\ t.a # <<>> /\ t.b # <<>> /\ t.c # <<>>
    IN  CASE numeric /\ Len(t.a) \in 1..2 /\ Len(t.b) \in 1..2 /\ Len(t.c) = 4
                /\ t.s1 = "." /\ t.s2 = "." -> "DD.MM.YYYY"
          [] numeric /\ Len(t.a) \in 1..2 /\ Len(t.b) \in 1..2 /\ Len(t.c) = 4
                /\ t.s1 = "/" /\ t.s2 = "/" -> "DD/MM/YYYY"
          [] numeric /\ Len(t.a) = 4 /\ Len(t.b) \in 1..2 /\ Len(t.c) \in 1..2
                /\ t.s1 = "-" /\ t.s2 = "-" -> "YYYY-MM-DD"
          [] t.a # <<>> /\ Len(t.a) \in 1..2 /\ Len(t.c) = 4
                /\ Lower(t.w) \in FullMonths -> "D month YYYY"
          [] t.a # <<>> /\ Len(t.a) \in 1..2 /\ Len(t.c) = 4
                /\ Lower(t.w) \in AbbrMonths -> "D mon YYYY"
          [] numeric /\ Len(t.a) \in 1..2 /\ Len(t.b) \in 1..2 /\ Len(t.c) = 2
                /\ t.s1 \in {".", "/"} /\ t.s2 = t.s1 -> "DD.MM.YY"
          [] OTHER -> "none"

\* The order in which the grammars are looked for (month names in full
\* before abbreviated ones)
GrammarRank(g) ==
    CASE g = "DD.MM.YYYY" -> 1 [] g = "DD/MM/YYYY" -> 2 [] g = "YYYY-MM-DD" -> 3
      [] g = "D month YYYY" -> 4 [] g = "D mon YYYY" -> 5 [] g = "DD.MM.YY" -> 6
      [] OTHER -> 7

\* A token that looks like a date: three fields, the outer two numeric
DateLike(tok) == Lex(tok).a # <<>> /\ Lex(tok).c # <<>>

\* The year a literal names: a year of two digits is one of 1950..2049, a
\* year written with more digits is the number written
YearWritten(digits) ==
    IF Len(digits) = 2
    THEN (IF ToInt(digits) < 50 THEN 2000 + ToInt(digits) ELSE 1900 + ToInt(digits))
    ELSE ToInt(digits)

\* <<year, month, day>> a date-like token names
Written(tok) ==
    LET t == Lex(tok)
    IN  IF t.w # "" THEN
            <<YearWritten(t.c),
              IF Lower(t.w) \in DOMAIN month_names THEN month_names[Lower(t.w)] ELSE 0,
              ToInt(t.a)>>
        ELSE IF Len(t.a) = 4 /\ t.s1 = "-" THEN <<ToInt(t.a), ToInt(t.b), ToInt(t.c)>>
        ELSE <<YearWritten(t.c), ToInt(t.b), ToInt(t.a)>>

NamesValidDate(tok) == ValidDate(Written(tok)[1], Written(tok)[2], Written(tok)[3])

\* YYYY-MM-DD
Iso(ymd) ==
    ZeroPad(ToStr(ymd[1]), 4) \o <<"-">> \o ZeroPad(ToStr(ymd[2]), 2)
        \o <<"-">> \o ZeroPad(ToStr(ymd[3]), 2)

\* The dates that occur in a text in a recognized grammar
Occurring(text) ==
    {k \in 1..Len(text) : Grammar(text[k]) # "none" /\ NamesValidDate(text[k])}

\* When the scan (grammar by grammar, each from left to right) first sees
\* the date ymd in the text
FirstSeen(text, ymd) ==
    LET at == {GrammarRank(Grammar(text[k])) * (Len(text) + 1) + k :
                  k \in {i \in Occurring(text) : Written(text[i]) = ymd}}
    IN  CHOOSE n \in at : \A m \in at : n <= m

\* C5: extract_dates_from_text returns each calendar date that occurs in the
\* text in a recognized grammar exactly once, as a YYYY-MM-DD string, also
\* when it occurs in two grammars; the result has no duplicates, holds
\* nothing but YYYY-MM-DD strings and is in first-seen order.
C5_EachDateOnce ==
    IsCall("extract_dates_from_text") =>
        LET text == ret.args[1]
            dates == ret.val
        IN  /\ \A k \in Occurring(text) :
                   Cardinality({i \in 1..Len(dates) : dates[i] = Iso(Written(text[k]))}) = 1
            /\ \A i \in 1..Len(dates) : IsIsoDate(dates[i])
            /\ \A i, j \in 1..Len(dates) : i # j => dates[i] # dates[j]
            /\ \A i, j \in 1..Len(dates) :
                   (/\ i < j
                    /\ \E k \in Occurring(text) : Iso(Written(text[k])) = dates[i]
                    /\ \E k \in Occurring(text) : Iso(Written(text[k])) = dates[j])
                   => FirstSeen(text, DateFields(dates[i])) < FirstSeen(text, DateFields(dates[j]))

\* C6: every stored event's date is a valid calendar date written as a
\* normalized YYYY-MM-DD string, whatever the form and the year of the date
\* in the e-mail.
C6_StoredDatesNormalized ==
    \A u \in DOMAIN events :
        \A i \in 1..Len(events[u]) : IsIsoDate(events[u][i].date)

\* C7: the two-digit year expansion applies exactly to years written with
\* two digits: v gives 2000 + v below 50 and 1900 + v from 50 on, and a year
\* written with four digits is returned as written.
C7_TwoDigitYears ==
    IsCall("extract_dates_from_text") =>
        \A k \in Occurring(ret.args[1]) :
            LET digits == IF Grammar(ret.args[1][k]) = "YYYY-MM-DD"
                          THEN Lex(ret.args[1][k]).a ELSE Lex(ret.args[1][k]).c
                ymd == Written(ret.args[1][k])
            IN  /\ Len(digits) = 2 =>
                       \E i \in 1..Len(ret.val) :
                           DateFields(ret.val[i]) =
                               <<IF ToInt(digits) < 50 THEN 2000 + ToInt(digits)
                                 ELSE 1900 + ToInt(digits), ymd[2], ymd[3]>>
                /\ Len(digits) = 4 =>
                       \E i \in 1..Len(ret.val) :
                           DateFields(ret.val[i]) = <<ToInt(digits), ymd[2], ymd[3]>>

\* The text without its date-like tokens that name no valid calendar date
RECURSIVE WithoutInvalid(_)
WithoutInvalid(text) ==
    IF text = <<>> THEN <<>>
    ELSE IF DateLike(Head(text)) /\ ~NamesValidDate(Head(text))
    THEN WithoutInvalid(Tail(text))
    ELSE <<Head(text)>> \o WithoutInvalid(Tail(text))

\* C8: a date-like substring that is no valid calendar date is silently
\* discarded: the dates extracted are those of the text without it, so no
\* date, partial date or shifted date comes from it (and, the events being
\* made from the extracted dates, no event).
C8_InvalidDiscarded ==
    IsCall("extract_dates_from_text") =>
        ret.val = ExtractDates(padsYear, WithoutInvalid(ret.args[1]))

-----------------------------------------------------------------------------
(* C9 - C10: adding and pruning                                            *)

C10_PrunesOldOnly ==
    [][(/\ ret'.op = "clear_old_events" /\ ret'.val = "None"
        /\ ret'.at = now' /\ now' = now) =>
        LET IsRecent(e) == Cal(e.date) >= now - ret'.args[1]
        IN  \A u \in Users :
                UserList(events', u) = SelectSeq(UserList(events, u), IsRecent)]_vars

-----------------------------------------------------------------------------
(* C11: what the store does to an event it holds                           *)

\* C11: once an event is stored, no step changes its id, title, date,
\* original_date, created_at or email_preview while it stays in the user's
\* list, and its reminder_sent never goes back from true to false; the only
\* change is reminder_sent becoming true.
C11_OnlyReminderSentChanges ==
    [][\A u \in Users :
          \A old \in Range(UserList(events, u)) :
              \A new \in Range(UserList(events', u)) :
                  new.id = old.id =>
                      /\ new.title = old.title
                      /\ new.date = old.date
                      /\ new.original_date = old.original_date
                      /\ new.created_at = old.created_at
                      /\ new.email_preview = old.email_preview
                      /\ old.reminder_sent => new.reminder_sent]_vars

\* A reminder has been marked as sent for an event that was added on an
\* earlier day, and the e-mail of the event has come again since.
C11_Witness ==
    /\ IsCall("add_event_from_email")
    /\ ret.val = <<>>
    /\ \E e \in Range(UserList(events, ret.args[1])) :
           /\ e.reminder_sent
           /\ e.created_at < now
           /\ e.title = ret.args[2]

-----------------------------------------------------------------------------
(* The e-mail client (src/email_client.py): the parts of a message         *)
(*                                                                         *)
(* A part is a record: its content type, its Content-Disposition header    *)
(* (present or not, its type, its filename parameter), the name parameter  *)
(* of its Content-Type header and its decoded payload.  A payload, like a  *)
(* text, is the sequence of its tokens; the tokens of an HTML payload are  *)
(* tags, entities and pieces of text.  A header is the sequence of the     *)
(* words of its text, and "x in header" looks for a word.                  *)

\* Parts of a message, at most
MaxParts == 2

Disposition(present, type, filename) ==
    [present |-> present, type |-> type, filename |-> filename]

NoDisposition == Disposition(FALSE, "", "")

Part(content_type, disposition, name, payload) ==
    [content_type |-> content_type, disposition |-> disposition,
     name |-> name, payload |-> payload]

\* str(part.get("Content-Disposition")): the text of the header, "None"
\* when the part has none
content_disposition(part) ==
    IF ~part.disposition.present THEN <<"None">>
    ELSE <<part.disposition.type>>
             \o (IF part.disposition.filename # ""
                 THEN <<"filename", part.disposition.filename>> ELSE <<>>)

\* part.get_filename(): the filename parameter of Content-Disposition, or
\* else the name parameter of Content-Type, or else None ("")
get_filename(part) ==
    IF part.disposition.present /\ part.disposition.filename # ""
    THEN part.disposition.filename
    ELSE part.name

\* re.sub(r"<[^>]+>", " ", html)
IsTag(tok) == tok \in {"<p>", "</p>", "<br>", "<b>", "</b>"}

\* The replaced entities; &nbsp; becomes white space, which is collapsed
Entity(tok) ==
    CASE tok = "&amp;" -> <<"&">>
      [] tok = "&lt;" -> <<"<">>
      [] tok = "&gt;" -> <<">">>
      [] tok = "&nbsp;" -> <<>>
      [] OTHER -> <<tok>>

RECURSIVE html_to_text(_)
html_to_text(html) ==
    IF html = <<>> THEN <<>>
    ELSE (IF IsTag(Head(html)) THEN <<>> ELSE Entity(Head(html)))
             \o html_to_text(Tail(html))

\* What writing the temporary file does
TmpFiles == {"ok", "write fails"}

\* _extract_attachment: <<the dict>>, or <<>> for None
extract_attachment(part, tmp) ==
    LET filename == get_filename(part)
        file_data == part.payload
    IN  IF filename = "" THEN <<>>
        ELSE IF file_data = <<>> THEN <<>>
        ELSE IF tmp # "ok" THEN <<>>
        ELSE <<[filename |-> filename,
                content_type |-> part.content_type,
                size |-> Len(file_data),
                data |-> file_data]>>

\* "attachment" in content_disposition or "filename" in content_disposition
IsAttachment(part) ==
    \/ InSeq("attachment", content_disposition(part))
    \/ InSeq("filename", content_disposition(part))

\* content_type.startswith("multipart/")
IsContainer(part) ==
    part.content_type \in {"multipart/mixed", "multipart/alternative"}

\* The loop over msg.walk(): <<body, attachments>>
RECURSIVE WalkLoop(_, _, _, _)
WalkLoop(parts, tmp, body, attachments) ==
    IF parts = <<>> THEN <<body, attachments>>
    ELSE LET part == Head(parts)
             rest == Tail(parts)
         IN  IF IsContainer(part) THEN WalkLoop(rest, tmp, body, attachments)
             ELSE IF IsAttachment(part)
             THEN WalkLoop(rest, tmp, body,
                           attachments \o extract_attachment(part, tmp))
             ELSE IF part.content_type = "text/plain" /\ body = <<>>
             THEN WalkLoop(rest, tmp, part.payload, attachments)
             ELSE IF part.content_type = "text/html" /\ body = <<>>
             THEN WalkLoop(rest, tmp,
                           IF part.payload # <<>> THEN html_to_text(part.payload)
                           ELSE body,
                           attachments)
             ELSE WalkLoop(rest, tmp, body, attachments)

\* A message: msg.walk() gives the message itself and then its parts; a
\* message that is not multipart is its own only part.
Message(is_multipart, parts) == [is_multipart |-> is_multipart, parts |-> parts]

Root == Part("multipart/mixed", NoDisposition, "", <<>>)

walk(msg) == IF msg.is_multipart THEN <<Root>> \o msg.parts ELSE msg.parts

\* _get_email_body_and_attachments: <<body, attachments>>
get_email_body_and_attachments(msg, tmp) ==
    IF msg.is_multipart
    THEN WalkLoop(walk(msg), tmp, <<>>, <<>>)
    ELSE <<msg.parts[1].payload, <<>>>>

\* The parts messages are made of
PartKinds ==
    {Part("text/plain", NoDisposition, "", <<"plain body">>),
     Part("text/plain", NoDisposition, "", <<>>),
     Part("text/html", NoDisposition, "", <<"<p>", "html", "&amp;", "body", "</p>">>),
     Part("text/html", NoDisposition, "", <<"<br>">>),
     Part("multipart/alternative", NoDisposition, "", <<>>),
     Part("application/pdf", Disposition(TRUE, "attachment", "a.pdf"), "", <<"%PDF">>),
     Part("text/plain", Disposition(TRUE, "attachment", "a.txt"), "", <<"attached text">>),
     Part("application/pdf", Disposition(TRUE, "attachment", ""), "", <<"%PDF-2">>),
     Part("image/png", Disposition(TRUE, "inline", "logo.png"), "", <<"PNG">>),
     Part("text/plain", Disposition(TRUE, "ATTACHMENT", ""), "", <<"ATTACHED TEXT">>),
     Part("text/plain", NoDisposition, "notes.txt", <<"notes">>),
     Part("application/zip", Disposition(TRUE, "attachment", "empty.zip"), "", <<>>)}

Messages ==
    {Message(TRUE, parts) : parts \in SeqsUpTo(PartKinds, MaxParts)}
        \cup {Message(FALSE, <<part>>) : part \in {k \in PartKinds : ~IsContainer(k)}}

\* The body and the attachments of one message are taken
body_and_attachments(msg, tmp) ==
    /\ ret' = Call("_get_email_body_and_attachments", <<msg, tmp>>,
                   get_email_body_and_attachments(msg, tmp))
    /\ UNCHANGED <<events, file, now, padsYear, users, users_file, bot_vars, connection>>

\* strftime plays no part in the client
InitClient == Init /\ padsYear

NextParts == \E msg \in Messages, tmp \in TmpFiles : body_and_attachments(msg, tmp)

SpecParts == InitClient /\ [][NextParts]_vars

-----------------------------------------------------------------------------
(* The e-mail client: the session                                          *)
(*                                                                         *)
(* connection is "None" or the state of the IMAP4_SSL object it holds:     *)
(* "NONAUTH" (connected, not logged in), "AUTH" or "SELECTED".  What the   *)
(* server and the network do in one session is an input: "ok", or the      *)
(* step that fails and how.                                                *)

\* Unseen messages in a mailbox, at most
MaxMail == 2

Sessions ==
    {"ok", "network fails", "login fails", "select NO", "select raises",
     "search NO", "search raises"}

\* connect(): <<connection, returned value>>
Connect(conn, session) ==
    IF session = "network fails" THEN <<conn, FALSE>>
    ELSE IF session = "login fails" THEN <<"NONAUTH", FALSE>>
    ELSE <<"AUTH", TRUE>>

\* Mutant of Swallowed: the exception goes on to the caller.
Propagated(outcome) == outcome

\* What "except: pass" makes of an exception raised in the try block
Swallowed(outcome) == "None"

\* close() and logout(): imaplib refuses CLOSE in every state but SELECTED;
\* the result is "None" or the exception raised
CloseAndLogout(conn, close, logout) ==
    IF conn # "SELECTED" \/ close # "ok" THEN "close raises"
    ELSE IF logout # "ok" THEN "logout raises"
    ELSE "None"

\* disconnect(): <<connection, "None" or the exception that leaves it>>
Disconnect(conn, close, logout) ==
    IF conn = "None" THEN <<"None", "None">>
    ELSE LET outcome == CloseAndLogout(conn, close, logout)
         IN  IF outcome = "None" THEN <<"None", "None">>
             ELSE IF Swallowed(outcome) = "None" THEN <<"None", "None">>
             ELSE <<conn, outcome>>

\* A message on the server: its subject, its MIME structure and what
\* FETCH does for it
Mail(subject, msg, fetch) == [subject |-> subject, msg |-> msg, fetch |-> fetch]

PlainMail(subject, body, fetch) ==
    Mail(subject, Message(FALSE, <<Part("text/plain", NoDisposition, "", body)>>), fetch)

\* _fetch_email: <<the dict>>, or <<>> for None
fetch_email(conn, email_id, mail) ==
    IF conn = "None" THEN <<>>
    ELSE IF mail.fetch # "OK" THEN <<>>
    ELSE LET r == get_email_body_and_attachments(mail.msg, "ok")
         IN  <<[id |-> email_id, subject |-> mail.subject, body |-> r[1],
                attachments |-> r[2], has_attachments |-> Len(r[2]) > 0]>>

\* email_ids[-limit:]: with limit = 0 the slice starts at -0 = 0
LastIds(email_ids, limit) ==
    IF limit = 0 \/ limit >= Len(email_ids) THEN email_ids
    ELSE SubSeq(email_ids, Len(email_ids) - limit + 1, Len(email_ids))

\* [::-1]
Reversed(q) == [i \in 1..Len(q) |-> q[Len(q) + 1 - i]]

\* The loop over the ids; mailbox[id] is the message with sequence number id
RECURSIVE FetchLoop(_, _, _, _)
FetchLoop(conn, ids, mailbox, emails) ==
    IF ids = <<>> THEN emails
    ELSE FetchLoop(conn, Tail(ids), mailbox,
                   emails \o fetch_email(conn, Head(ids), mailbox[Head(ids)]))

\* get_unread_emails after the connection is there: SELECT, SEARCH, fetch
Unread(conn, limit, session, mailbox) ==
    IF conn = "NONAUTH" \/ session = "select raises" THEN <<conn, <<>>>>
    ELSE IF session = "select NO" THEN <<"AUTH", <<>>>>
    ELSE IF session \in {"search NO", "search raises"} THEN <<"SELECTED", <<>>>>
    ELSE <<"SELECTED",
           FetchLoop("SELECTED",
                     Reversed(LastIds([i \in 1..Len(mailbox) |-> i], limit)),
                     mailbox, <<>>)>>

\* get_unread_emails(limit): <<connection, emails>>
GetUnread(conn, limit, session, mailbox) ==
    IF conn = "None"
    THEN LET c == Connect(conn, session)
         IN  IF ~c[2] THEN <<c[1], <<>>>>
             ELSE IF c[1] = "None" THEN <<c[1], <<>>>>
             ELSE Unread(c[1], limit, session, mailbox)
    ELSE Unread(conn, limit, session, mailbox)

\* The messages of the model's mailboxes
Mails ==
    {PlainMail(<<"Invoice">>, <<"2025-03-11", "18.03.2025">>, "OK"),
     PlainMail(<<"Meeting", "10.03.2025">>, <<"13 marta 2025">>, "OK"),
     PlainMail(<<"Broken">>, <<"2025-03-11">>, "raises")}

Mailboxes == SeqsUpTo(Mails, MaxMail)

Limits == {0, 1, 5}

Outcomes == {"ok", "fails"}

\* The client's operations
connect(session) ==
    /\ connection' = Connect(connection, session)[1]
    /\ ret' = Call("connect", <<session>>, Connect(connection, session)[2])
    /\ UNCHANGED <<events, file, now, padsYear, users, users_file, bot_vars>>

disconnect(close, logout) ==
    /\ connection' = Disconnect(connection, close, logout)[1]
    /\ ret' = Call("disconnect", <<close, logout, connection>>,
                   Disconnect(connection, close, logout)[2])
    /\ UNCHANGED <<events, file, now, padsYear, users, users_file, bot_vars>>

get_unread_emails(limit, session, mailbox) ==
    /\ connection' = GetUnread(connection, limit, session, mailbox)[1]
    /\ ret' = Call("get_unread_emails", <<limit, session, mailbox, connection>>,
                   GetUnread(connection, limit, session, mailbox)[2])
    /\ UNCHANGED <<events, file, now, padsYear, users, users_file, bot_vars>>

NextClient ==
    \/ \E session \in Sessions : connect(session)
    \/ \E close \in Outcomes, logout \in Outcomes : disconnect(close, logout)
    \/ \E limit \in Limits, session \in Sessions, mailbox \in Mailboxes :
           get_unread_emails(limit, session, mailbox)

SpecClient == InitClient /\ [][NextClient]_vars

-----------------------------------------------------------------------------
(* C12, C17: the session of the client                                     *)

\* The sequence numbers of the messages a call with this limit is to
\* return: the last `limit` of the mailbox, the most recent first, without
\* those whose fetch fails
RECURSIVE MostRecent(_, _, _)
MostRecent(mailbox, n, limit) ==
    IF n = 0 \/ limit = 0 THEN <<>>
    ELSE (IF mailbox[n].fetch = "OK" THEN <<n>> ELSE <<>>)
             \o MostRecent(mailbox, n - 1, limit - 1)

\* C12: for every limit >= 0 and every mailbox, get_unread_emails(limit)
\* returns at most limit messages, and they are the most recent unseen
\* messages, the most recent first.
C12_AtMostLimitMostRecentFirst ==
    IsCall("get_unread_emails") =>
        LET limit == ret.args[1]
            session == ret.args[2]
            mailbox == ret.args[3]
            before == ret.args[4]
            expected == MostRecent(mailbox, Len(mailbox), limit)
        IN  /\ Len(ret.val) <= limit
            /\ (session = "ok" /\ before # "NONAUTH") =>
                   /\ Len(ret.val) = Len(expected)
                   /\ \A i \in 1..Len(expected) :
                          /\ ret.val[i].id = expected[i]
                          /\ ret.val[i].subject = mailbox[expected[i]].subject

\* C17: disconnect never raises, whatever fails in close() or logout(), and
\* after it the client holds no connection.
C17_DisconnectBestEffort ==
    IsCall("disconnect") => (ret.val = "None" /\ connection = "None")

\* disconnect has returned after close() raised on a connection that had
\* no mailbox selected, and after logout() raised on one that had.
C17_Witness ==
    /\ IsCall("disconnect")
    /\ connection = "None"
    /\ \/ ret.args[3] \in {"NONAUTH", "AUTH"}
       \/ ret.args[3] = "SELECTED" /\ ret.args[1] = "ok" /\ ret.args[2] = "fails"

-----------------------------------------------------------------------------
(* C18 - C19: the body and the attachments of a message                    *)

\* The part is an attachment as a reader of the message understands it:
\* its disposition says attachment, in whatever case, or it carries a
\* filename (in either header).
CarriesAttachment(part) ==
    \/ part.disposition.present /\ part.disposition.type \in {"attachment", "ATTACHMENT"}
    \/ get_filename(part) # ""

\* The text a part gives as a body
PartText(part) ==
    IF part.content_type = "text/html" THEN html_to_text(part.payload)
    ELSE part.payload

\* The positions of the parts of the given type that are not taken as
\* attachments and have text
BodyParts(msg, content_type) ==
    {i \in 1..Len(msg.parts) :
        /\ msg.parts[i].content_type = content_type
        /\ ~IsAttachment(msg.parts[i])
        /\ PartText(msg.parts[i]) # <<>>}

First(S) == CHOOSE i \in S : \A j \in S : i <= j

\* C18: for every multi-part message, whatever the order of its parts, the
\* body is the first text/plain part that is not an attachment; the first
\* text/html part, stripped to text, is the body only when the message has
\* no text/plain part.
C18_PlainBodyFirst ==
    (IsCall("_get_email_body_and_attachments") /\ ret.args[1].is_multipart) =>
        LET msg == ret.args[1]
            body == ret.val[1]
            plain == BodyParts(msg, "text/plain")
            html == BodyParts(msg, "text/html")
        IN  /\ plain # {} => body = PartText(msg.parts[First(plain)])
            /\ (plain = {} /\ html # {}) => body = PartText(msg.parts[First(html)])
            /\ (plain = {} /\ html = {}) => body = <<>>

\* C19: every part that is no container and has a disposition indicating
\* attachment, or carries a filename, is in the attachments list of the
\* message (the temporary file being written) and is not the body,
\* whatever its content type.
C19_AttachmentsListed ==
    (IsCall("_get_email_body_and_attachments") /\ ret.args[2] = "ok") =>
        LET msg == ret.args[1]
            body == ret.val[1]
            attachments == ret.val[2]
        IN  \A i \in 1..Len(msg.parts) :
                (~IsContainer(msg.parts[i]) /\ CarriesAttachment(msg.parts[i])) =>
                    /\ \E k \in 1..Len(attachments) :
                           /\ attachments[k].data = msg.parts[i].payload
                           /\ attachments[k].content_type = msg.parts[i].content_type
                    /\ PartText(msg.parts[i]) # <<>> => body # PartText(msg.parts[i])

-----------------------------------------------------------------------------
(* The user store (src/user_manager.py) and the bot (src/bot.py)           *)
(*                                                                         *)
(* users is user_manager.users: str(user_id) -> the user's record.  The    *)
(* handlers are taken as a whole; what the mail server, the language model *)
(* and Telegram do during one handler is its input.                        *)

\* _encrypt and _decrypt: the stored password is a token made with the key
Encrypt(data) == [fernet |-> data]

\* Mutant of Decrypt: the token cannot be decrypted, and get_user_data puts
\* "" in its place.
DecryptFails(encrypted_data) == ""

Decrypt(encrypted_data) == encrypted_data.fernet

\* A credential as the registration dialogue collects it
Credential(login, password, imap_server) ==
    [login |-> login, password |-> password, imap_server |-> imap_server]

\* add_user: the record replaces what was stored for the user, settings
\* included (their keys are absent again, which reads as True)
add_user(usrs, user_id, cred) ==
    [k \in DOMAIN usrs \cup {ToStr(user_id)} |->
        IF k = ToStr(user_id)
        THEN [login |-> cred.login, password |-> Encrypt(cred.password),
              imap_server |-> cred.imap_server, notifications_enabled |-> TRUE]
        ELSE usrs[k]]

\* get_user_data: <<the record with the password decrypted>>, or <<>> for None
get_user_data(usrs, user_id) ==
    IF ToStr(user_id) \in DOMAIN usrs
    THEN <<[usrs[ToStr(user_id)] EXCEPT !.password = Decrypt(@)]>>
    ELSE <<>>

\* "user_data.get(key, default)"
Setting(record, key, default) ==
    IF key \in DOMAIN record THEN record[key] ELSE default

\* "self.users[str(user_id)][key] = value"
Put(record, key, value) ==
    [k \in DOMAIN record \cup {key} |-> IF k = key THEN value ELSE record[k]]

\* update_user_setting: the store it leaves
update_user_setting(usrs, user_id, key, value) ==
    IF ToStr(user_id) \in DOMAIN usrs
    THEN [usrs EXCEPT ![ToStr(user_id)] = Put(@, key, value)]
    ELSE usrs

\* delete_user: the store it leaves
delete_user(usrs, user_id) ==
    [k \in DOMAIN usrs \ {ToStr(user_id)} |-> usrs[k]]

\* _save_users: on success the file holds the whole store; a failure is
\* caught and logged, and the file is left as it was (when open() fails) or
\* unreadable (when the write fails after open() truncated the file).
save_users(usrs, w) ==
    CASE w = "ok" -> usrs
      [] w = "open fails" -> users_file
      [] w = "write fails" -> Corrupt

\* What happens to one message in the loop of _check_user_emails: nothing,
\* the language model raises, the message cannot be sent, or neither the
\* message nor the error notice after it can be sent
Faults == {"ok", "analysis fails", "send fails", "send fails twice"}

\* A message the bot has sent to the user
Reply(kind, subject, found) == [kind |-> kind, subject |-> subject, events |-> found]

Notice(kind) == Reply(kind, <<>>, <<>>)

\* The store after the loop of add_event_from_email: r is <<the user's
\* list, events_added>>
Stored(evs, user_id, r) ==
    <<[u \in DOMAIN evs \cup {user_id} |-> IF u = user_id THEN r[1] ELSE evs[u]],
      r[2]>>

AddDates(evs, user_id, email_subject, email_body, dates) ==
    IF dates = <<>> THEN <<evs, <<>>>>
    ELSE Stored(evs, user_id,
                AddLoop(user_id, email_subject, email_body, dates,
                        IF user_id \in DOMAIN evs THEN evs[user_id] ELSE <<>>, <<>>))

\* event_manager.add_event_from_email on a given store: <<events, events_added>>
AddFromEmail(evs, user_id, email_subject, email_body) ==
    AddDates(evs, user_id, email_subject, email_body,
             extract_dates_from_text(EmailText(email_subject, email_body)))

\* One pass of "for email_data in emails", added being what
\* add_event_from_email gives: the store, the reply sent if any, and whether
\* an exception leaves the loop
Handled(evs, email_data, fault, added) ==
    CASE fault = "analysis fails" ->
           [events |-> evs, raised |-> FALSE,
            replies |-> <<Reply("mail error", email_data.subject, <<>>)>>]
      [] fault = "ok" ->
           [events |-> added[1], raised |-> FALSE,
            replies |-> <<Reply("mail", email_data.subject, added[2])>>]
      [] fault = "send fails" ->
           [events |-> added[1], raised |-> FALSE,
            replies |-> <<Reply("mail error", email_data.subject, <<>>)>>]
      [] fault = "send fails twice" ->
           [events |-> added[1], raised |-> TRUE, replies |-> <<>>]

\* "for email_data in emails": the store, the replies sent, and whether an
\* exception left the loop
RECURSIVE MessageLoop(_, _, _, _, _)
RECURSIVE AfterMessage(_, _, _, _, _)
MessageLoop(evs, user_id, emails, faults, replies) ==
    IF emails = <<>> THEN [events |-> evs, replies |-> replies, raised |-> FALSE]
    ELSE AfterMessage(Handled(evs, Head(emails), faults[Head(emails).id],
                              AddFromEmail(evs, user_id, Head(emails).subject,
                                           Head(emails).body)),
                      user_id, Tail(emails), faults, replies)

AfterMessage(step, user_id, emails, faults, replies) ==
    IF step.raised
    THEN [events |-> step.events, replies |-> replies, raised |-> TRUE]
    ELSE MessageLoop(step.events, user_id, emails, faults, replies \o step.replies)

\* What a call of _check_user_emails leaves: the store, the value returned
\* ("True", "False", or "raises" when an exception leaves the call), the
\* replies sent and the connection its client holds at the end
Checked(evs, returned, replies, conn) ==
    [events |-> evs, returned |-> returned, replies |-> replies, connection |-> conn]

\* The outer "except Exception" of _check_user_emails
CheckFailed(evs, replies, conn, notify_no_emails, notice) ==
    IF ~notify_no_emails THEN Checked(evs, "False", replies, conn)
    ELSE IF notice = "ok"
    THEN Checked(evs, "False", Append(replies, Notice("check error")), conn)
    ELSE Checked(evs, "raises", replies, conn)

\* _check_user_emails after the loop over the messages
CheckLooped(conn, notify_no_emails, notice, loop) ==
    IF loop.raised
    THEN CheckFailed(loop.events, loop.replies, conn, notify_no_emails, notice)
    ELSE Checked(loop.events, "True", loop.replies, Disconnect(conn, "ok", "ok")[1])

\* _check_user_emails after get_unread_emails, r being <<connection, emails>>
CheckFetched(evs, user_id, notify_no_emails, sc, r) ==
    IF r[2] = <<>>
    THEN IF notify_no_emails /\ sc.notice # "ok"
         THEN CheckFailed(evs, <<>>, r[1], notify_no_emails, sc.notice)
         ELSE Checked(evs, "True",
                      IF notify_no_emails THEN <<Notice("no new mail")>> ELSE <<>>,
                      Disconnect(r[1], "ok", "ok")[1])
    ELSE CheckLooped(r[1], notify_no_emails, sc.notice,
                     MessageLoop(evs, user_id, r[2], sc.faults, <<>>))

\* _check_user_emails
CheckUserEmails(evs, usrs, user_id, notify_no_emails, sc) ==
    IF get_user_data(usrs, user_id) = <<>>
    THEN IF sc.notice = "ok"
         THEN Checked(evs, "False", <<Notice("no data")>>, "None")
         ELSE Checked(evs, "raises", <<>>, "None")
    ELSE CheckFetched(evs, user_id, notify_no_emails, sc,
                      GetUnread("None", 5, sc.session, sc.mailbox))

\* Mutant of Continue: the loop over the users ends at the first user whose
\* check did not succeed.
StopAtFailure(returned) == IF returned = "True" THEN "continue" ELSE "raise"

\* What auto_check_all_users does after the check of one user: the value
\* returned is dropped, an exception is caught and logged, and the loop
\* goes on with the next user
Continue(returned) == "continue"

\* "for user_id in list(user_manager.users.keys())": the store, what was
\* done for each user, and whether an exception left the loop
RECURSIVE AutoLoop(_, _, _, _, _)
RECURSIVE AfterUser(_, _, _, _, _, _)
AutoLoop(evs, usrs, ids, env, log) ==
    IF ids = <<>> THEN [events |-> evs, log |-> log, raised |-> FALSE]
    ELSE IF get_user_data(usrs, ToInt(Head(ids))) = <<>>
    THEN AutoLoop(evs, usrs, Tail(ids), env, log)
    ELSE IF ~Setting(get_user_data(usrs, ToInt(Head(ids)))[1], "autocheck_enabled", TRUE)
    THEN AutoLoop(evs, usrs, Tail(ids), env, log)
    ELSE IF ~get_user_data(usrs, ToInt(Head(ids)))[1].notifications_enabled
    THEN AutoLoop(evs, usrs, Tail(ids), env, log)
    ELSE AfterUser(CheckUserEmails(evs, usrs, ToInt(Head(ids)), FALSE,
                                   env[ToInt(Head(ids))]),
                   usrs, ToInt(Head(ids)), Tail(ids), env, log)

AfterUser(r, usrs, user_id, ids, env, log) ==
    IF Continue(r.returned) = "continue"
    THEN AutoLoop(r.events, usrs, ids, env,
                  Append(log, [user_id |-> user_id, returned |-> r.returned,
                               replies |-> r.replies, connection |-> r.connection]))
    ELSE [events |-> r.events, log |-> log, raised |-> TRUE]

\* The choices of the confirmation keyboard, and any other text
Choices == {"Da, sohranit", "Vvesti zanovo", "Otmena", "other"}

Credentials == {Credential("anna@example.com", "secret", "imap.example.com")}

\* Whether Telegram delivers the replies of one handler
Sends == {"ok", "first fails", "last fails"}

\* Mutant of Confirm: the credential is stored whatever connect returned.
ConfirmUnchecked(usrs, user_id, cred, session) ==
    [users |-> add_user(usrs, user_id, cred),
     attempts |-> <<Connect("None", session)[2]>>, added |-> TRUE,
     connection |-> Connect("None", session)[1]]

\* "if email_client.connect():" in confirmation: what the handler leaves
\* in the user store, the connects it made and what they returned
Confirm(usrs, user_id, cred, session) ==
    LET c == Connect("None", session)
    IN  IF c[2]
        THEN [users |-> add_user(usrs, user_id, cred), attempts |-> <<c[2]>>,
              added |-> TRUE, connection |-> Disconnect(c[1], "ok", "ok")[1]]
        ELSE [users |-> usrs, attempts |-> <<c[2]>>, added |-> FALSE,
              connection |-> c[1]]

\* The messages of the mailboxes the bot reads
BotMails ==
    {PlainMail(<<"Meeting", "10.03.2025">>, <<"13 marta 2025">>, "OK"),
     PlainMail(Undated.subject, Undated.body, "OK"),
     PlainMail(<<"Broken">>, <<"2025-03-11">>, "raises")}

Scenario(session, mailbox, faults, notice) ==
    [session |-> session, mailbox |-> mailbox, faults |-> faults, notice |-> notice]

\* One check: a session that works with a mailbox and what happens to each of
\* its messages (nothing can happen to one that is never fetched), or a
\* session that fails
Scenarios ==
    {Scenario("ok", mailbox, faults, notice) :
        mailbox \in SeqsUpTo(BotMails, MaxMail),
        faults \in SeqsUpTo(Faults, MaxMail), notice \in Outcomes}
    \cup {Scenario(session, <<>>, <<>>, notice) :
             session \in Sessions, notice \in Outcomes}

\* One message of the batch at most is hit
WellFormed(sc) ==
    /\ Len(sc.faults) = Len(sc.mailbox)
    /\ \A i \in 1..Len(sc.mailbox) : sc.mailbox[i].fetch # "OK" => sc.faults[i] = "ok"
    /\ \A i, j \in 1..Len(sc.faults) :
           sc.faults[i] # "ok" /\ sc.faults[j] # "ok" => i = j
    /\ sc.session \in {"ok", "login fails", "search raises"}

CheckScenarios == {sc \in Scenarios : WellFormed(sc)}

\* The calls of _check_user_emails: whether the notices can be sent matters
\* when a notice is sent
CheckInputs ==
    {in \in BOOLEAN \X CheckScenarios :
        in[1] \/ in[2].notice = "ok" \/ in[2].mailbox = <<>>}

\* The periodic scan: one message at most for each user
AutoScenarios ==
    {sc \in CheckScenarios :
        /\ Len(sc.mailbox) <= 1
        /\ sc.notice = "ok"
        /\ sc.session \in {"ok", "login fails"}
        /\ \A i \in 1..Len(sc.faults) : sc.faults[i] \in {"ok", "send fails twice"}}

\* The orders in which a dict can hold these keys
Orders(keys) ==
    {q \in SeqsUpTo(keys, Cardinality(keys)) :
        /\ Len(q) = Cardinality(keys)
        /\ \A i, j \in 1..Len(q) : i # j => q[i] # q[j]}

\* The handlers
confirmation(user_id, choice, cred, send, session) ==
    LET r == Confirm(users, user_id, cred, session)
        connects == choice = "Da, sohranit" /\ send # "first fails"
    IN  /\ users' = IF connects THEN r.users ELSE users
        /\ users_file' = IF connects /\ r.added THEN save_users(r.users, "ok")
                          ELSE users_file
        /\ ret' = Call("confirmation", <<user_id, choice, cred, send, session, users>>,
                       [attempts |-> IF connects THEN r.attempts ELSE <<>>,
                        added |-> connects /\ r.added,
                        connection |-> IF connects THEN r.connection ELSE "None",
                        raised |-> send = "first fails"
                                   \/ (send = "last fails" /\ connects)])
        /\ UNCHANGED <<events, file, now, padsYear, bot_vars, connection>>

toggle_email_notifications(user_id) ==
    LET user_data == get_user_data(users, user_id)
    IN  /\ users' = IF user_data = <<>> THEN users
                     ELSE update_user_setting(users, user_id, "notifications_enabled",
                                              ~user_data[1].notifications_enabled)
        /\ users_file' = IF user_data = <<>> THEN users_file
                          ELSE save_users(users', "ok")
        /\ ret' = Call("toggle_email_notifications", <<user_id>>, "None")
        /\ UNCHANGED <<events, file, now, padsYear, bot_vars, connection>>

check_user_emails(user_id, notify_no_emails, sc) ==
    \E r \in {CheckUserEmails(events, users, user_id, notify_no_emails, sc)} :
        /\ events' = r.events
        /\ file' = IF r.events # events THEN save_events(r.events, "ok") ELSE file
        /\ ret' = Call("_check_user_emails", <<user_id, notify_no_emails, sc>>,
                       [returned |-> r.returned, replies |-> r.replies,
                        connection |-> r.connection])
        /\ UNCHANGED <<now, padsYear, users, users_file, bot_vars, connection>>

auto_check_all_users(ids, env) ==
    \E r \in {AutoLoop(events, users, ids, env, <<>>)} :
        /\ events' = r.events
        /\ file' = IF r.events # events THEN save_events(r.events, "ok") ELSE file
        /\ ret' = Call("auto_check_all_users", <<ids, env>>,
                       [log |-> r.log, raised |-> r.raised])
        /\ UNCHANGED <<now, padsYear, users, users_file, bot_vars, connection>>

\* What the server does when confirmation connects
Logins == {"ok", "network fails", "login fails"}

Register ==
    \E user_id \in Users, choice \in Choices, cred \in Credentials,
       send \in Sends, session \in Logins :
        confirmation(user_id, choice, cred, send, session)

\* Registration and the check of one user's mail
NextCheck ==
    \/ Register
    \/ \E user_id \in Users, in \in CheckInputs :
           check_user_emails(user_id, in[1], in[2])

SpecCheck == InitClient /\ [][NextCheck]_vars

\* Registration, the settings and the periodic scan
NextScan ==
    \/ Register
    \/ \E user_id \in Users : toggle_email_notifications(user_id)
    \/ \E ids \in Orders(DOMAIN users), env \in [Users -> AutoScenarios] :
           auto_check_all_users(ids, env)

SpecScan == InitClient /\ [][NextScan]_vars

-----------------------------------------------------------------------------
(* C13, C14, C16: the check of one user's mail                             *)

\* The last call was _check_user_emails for a user who is registered
CheckedRegistered ==
    /\ IsCall("_check_user_emails")
    /\ get_user_data(users, ret.args[1]) # <<>>

\* C13: when the session of a check fails (the login is refused, a command
\* fails), the check learns of it: it does not return True as it does
\* after a fetch that worked, and it does not tell the user that there is
\* no new mail.
C13_FailedSessionReported ==
    CheckedRegistered /\ ret.args[3].session # "ok" =>
        /\ ret.val.returned # "True"
        /\ \A k \in 1..Len(ret.val.replies) : ret.val.replies[k].kind # "no new mail"

\* The ids of the events the text of message i of a mailbox names
MailEventIds(user_id, mailbox, i) ==
    LET email_data == fetch_email("SELECTED", i, mailbox[i])[1]
        dates == extract_dates_from_text(EmailText(email_data.subject, email_data.body))
    IN  {Fingerprint(user_id, email_data.subject, dates[d]) : d \in 1..Len(dates)}

\* C14: whatever happens to one message of a batch, every other message of
\* the batch that can be fetched is delivered to the user and the events
\* its text names are in the user's list.
C14_BatchNotAborted ==
    CheckedRegistered /\ ret.args[3].session = "ok" =>
        \A i \in 1..Len(ret.args[3].mailbox) :
            ret.args[3].mailbox[i].fetch = "OK" /\ ret.args[3].faults[i] = "ok" =>
                /\ \E k \in 1..Len(ret.val.replies) :
                       /\ ret.val.replies[k].kind = "mail"
                       /\ ret.val.replies[k].subject = ret.args[3].mailbox[i].subject
                /\ \A id \in MailEventIds(ret.args[1], ret.args[3].mailbox, i) :
                       \E e \in 1..Len(get_user_events(ret.args[1])) :
                           get_user_events(ret.args[1])[e].id = id

\* C16: when _check_user_emails is left, by a return or by an exception,
\* the client it made holds no connection any more.
C16_SessionClosed ==
    IsCall("_check_user_emails") => ret.val.connection = "None"

-----------------------------------------------------------------------------
(* C15: the periodic scan                                                  *)

\* The entries of the log of a scan that are about a user
LogOf(user_id) ==
    {i \in 1..Len(ret.val.log) : ret.val.log[i].user_id = user_id}

\* C15: no exception leaves auto_check_all_users, and whatever the checks
\* of the other users came to, every registered user whose notifications
\* are on has been checked once, with the outcome the check of this user
\* alone has, and what the check adds to the store is in the store.
C15_ScanReachesEveryUser ==
    IsCall("auto_check_all_users") =>
        /\ ~ret.val.raised
        /\ \A user_id \in Users :
               /\ get_user_data(users, user_id) # <<>>
               /\ get_user_data(users, user_id)[1].notifications_enabled
               => /\ Cardinality(LogOf(user_id)) = 1
                  /\ \A i \in LogOf(user_id) :
                         ret.val.log[i].returned =
                             CheckUserEmails(events, users, user_id, FALSE,
                                             ret.args[2][user_id]).returned
                  /\ CheckUserEmails(events, users, user_id, FALSE,
                                     ret.args[2][user_id]).events = events

\* A scan in which the check of the first user fails and the second user
\* gets the message of their mailbox
C15_Witness ==
    /\ IsCall("auto_check_all_users")
    /\ Len(ret.val.log) = 2
    /\ ret.val.log[1].returned = "False"
    /\ ret.val.log[2].returned = "True"
    /\ Len(ret.val.log[2].replies) = 1
    /\ ret.val.log[2].replies[1].kind = "mail"
    /\ Len(get_user_events(ret.val.log[2].user_id)) > 0

-----------------------------------------------------------------------------
(* C20: the registration                                                   *)

\* C20: confirmation connects once at most; the credential is in the user
\* store afterwards, in place of what was stored for the user, exactly when
\* that connect succeeded, and the store is as it was when it did not.
C20_StoredIffConnected ==
    IsCall("confirmation") =>
        LET user_id == ret.args[1]
            cred == ret.args[3]
            before == ret.args[6]
            connected == ret.val.attempts = <<TRUE>>
        IN  /\ Len(ret.val.attempts) <= 1
            /\ ret.args[2] = "Da, sohranit" /\ ret.args[4] # "first fails"
                   => Len(ret.val.attempts) = 1
            /\ ret.val.added <=> connected
            /\ connected =>
                   /\ DOMAIN users = DOMAIN before \cup {ToStr(user_id)}
                   /\ users[ToStr(user_id)].login = cred.login
                   /\ Decrypt(users[ToStr(user_id)].password) = cred.password
                   /\ users[ToStr(user_id)].imap_server = cred.imap_server
                   /\ \A k \in DOMAIN before : k # ToStr(user_id) => users[k] = before[k]
            /\ ~connected => users = before

\* A credential is stored for a user who had none, after the one connect
\* succeeded
C20_Witness ==
    /\ IsCall("confirmation")
    /\ ret.val.attempts = <<TRUE>>
    /\ ToStr(ret.args[1]) \in DOMAIN users
    /\ ToStr(ret.args[1]) \notin DOMAIN ret.args[6]

-----------------------------------------------------------------------------
(* C21: the user store and its file                                        *)

\* The credentials users register with
UserCredentials ==
    {Credential("anna@example.com", "secret", "imap.example.com"),
     Credential("anna@example.com", "hunter2", "imap.example.com")}

\* The settings the bot writes: toggle_email_notifications and
\* toggle_reminder_<day> of handle_notification_callback
Settings ==
    {<<"notifications_enabled", FALSE>>, <<"reminder_days", <<7, 3>>>>}

\* The calls the bot makes on the user manager, each with what happens to
\* the write of users_data.json
AddUser(user_id, cred, w) ==
    /\ users' = add_user(users, user_id, cred)
    /\ users_file' = save_users(users', w)
    /\ ret' = Call("add_user", <<user_id, cred>>, TRUE)
    /\ UNCHANGED <<events, file, now, padsYear, bot_vars, connection>>

UpdateUserSetting(user_id, key, value, w) ==
    /\ users' = update_user_setting(users, user_id, key, value)
    /\ users_file' = IF ToStr(user_id) \in DOMAIN users
                      THEN save_users(users', w) ELSE users_file
    /\ ret' = Call("update_user_setting", <<user_id, key, value>>,
                   ToStr(user_id) \in DOMAIN users)
    /\ UNCHANGED <<events, file, now, padsYear, bot_vars, connection>>

DeleteUser(user_id, w) ==
    /\ users' = delete_user(users, user_id)
    /\ users_file' = IF ToStr(user_id) \in DOMAIN users
                      THEN save_users(users', w) ELSE users_file
    /\ ret' = Call("delete_user", <<user_id>>, ToStr(user_id) \in DOMAIN users)
    /\ UNCHANGED <<events, file, now, padsYear, bot_vars, connection>>

GetUserData(user_id) ==
    /\ ret' = Call("get_user_data", <<user_id>>, get_user_data(users, user_id))
    /\ UNCHANGED <<events, file, now, padsYear, users, users_file, bot_vars, connection>>

FailWrites == {"ok", "open fails", "write fails"}

NextUsers ==
    \/ \E user_id \in Users, cred \in UserCredentials, w \in FailWrites :
           AddUser(user_id, cred, w)
    \/ \E user_id \in Users, kv \in Settings, w \in FailWrites :
           UpdateUserSetting(user_id, kv[1], kv[2], w)
    \/ \E user_id \in Users, w \in FailWrites : DeleteUser(user_id, w)
    \/ \E user_id \in Users : GetUserData(user_id)

SpecUsers == Init /\ [][NextUsers]_vars

\* The value is what _encrypt returns
IsToken(stored) == DOMAIN stored = {"fernet"}

\* Every password field of a store or document is a token
AllTokens(document) ==
    \A k \in DOMAIN document : IsToken(document[k].password)

\* C21: after every call of add_user, update_user_setting and delete_user
\* the password field of every record of the user store, and of every
\* record of users_data.json, is the token _encrypt made and not the
\* password; get_user_data returns the password add_user was given, right
\* after add_user and after every later call that is not an add_user or
\* delete_user for the same user.
C21_PasswordEncrypted ==
    [][/\ AllTokens(users')
       /\ users_file' # Corrupt => AllTokens(users_file')
       /\ \A user_id \in Users :
              IF ret'.op = "add_user" /\ ret'.args[1] = user_id
              THEN get_user_data(users', user_id)[1].password = ret'.args[2].password
              ELSE (get_user_data(users, user_id) # <<>>
                    /\ ~(ret'.op = "delete_user" /\ ret'.args[1] = user_id))
                   => /\ get_user_data(users', user_id) # <<>>
                      /\ get_user_data(users', user_id)[1].password
                             = get_user_data(users, user_id)[1].password]_vars

\* A user's record, written by add_user and changed by update_user_setting,
\* is read by get_user_data while the file is behind the store
C21_Witness ==
    /\ IsCall("get_user_data")
    /\ ret.val # <<>>
    /\ ret.val[1].password = "hunter2"
    /\ "reminder_days" \in DOMAIN users[ToStr(ret.args[1])]
    /\ users_file # Corrupt
    /\ users_file # users

-----------------------------------------------------------------------------
(* C22, C23: the event store and its file                                  *)

\* json.load and "self.events[int(key)] = value": what load_events makes of
\* the document.  A document that cannot be parsed raises, and the store
\* starts empty; so it does when the file does not exist.
Load(document) ==
    IF document = Corrupt THEN <<>>
    ELSE [u \in {ToInt(k) : k \in DOMAIN document} |-> document[ToStr(u)]]

\* Mutant of load_events: a read that fails, or a document that cannot be
\* parsed, raises out of EventManager() and leaves no store.
load_events_raises(r) ==
    /\ events' = IF r = "ok" /\ file # Corrupt THEN Load(file) ELSE events
    /\ ret' = Call("load_events", <<r>>,
                   IF r = "ok" /\ file # Corrupt THEN "None" ELSE "raised")
    /\ UNCHANGED <<file, now, padsYear, users, users_file, bot_vars, connection>>

\* The process starts again: EventManager() reads events.json, and what
\* happens to the read
load_events(r) ==
    /\ events' = IF r = "ok" THEN Load(file) ELSE <<>>
    /\ ret' = Call("load_events", <<r>>, "None")
    /\ UNCHANGED <<file, now, padsYear, users, users_file, bot_vars, connection>>

\* "if user_id in event_manager.events: del event_manager.events[user_id];
\* event_manager.save_events()" of handle_delete_confirmation and get_login
remove_user_events(user_id, w) ==
    /\ IF user_id \in DOMAIN events
       THEN /\ events' = [u \in DOMAIN events \ {user_id} |-> events[u]]
            /\ file' = save_events(events', w)
       ELSE UNCHANGED <<events, file>>
    /\ ret' = Call("remove_user_events", <<user_id>>, "None")
    /\ UNCHANGED <<now, padsYear, users, users_file, bot_vars, connection>>

\* The event manager with the removal of a user's events and restarts;
\* every write and read succeeds
NextStore ==
    \/ Next
    \/ \E u \in Users : remove_user_events(u, "ok")
    \/ load_events("ok")

SpecStore == Init /\ [][NextStore]_vars

\* C22: every operation that changes the event store (create, mark, delete,
\* prune, removal of a user) leaves in events.json a document that loads to
\* the store as it is in memory, when no write fails.
C22_StoreRewritten ==
    [][events' # events => Load(file') = events']_vars

\* The e-mails that arrive while reads and writes fail
FaultyMails == {Email(<<"Invoice">>, <<"2025-03-11", "18.03.2025">>)}

Reads == {"ok", "read fails"}

\* The event manager when writes and reads of events.json can fail
NextFaulty ==
    \/ \E u \in Users, e \in FaultyMails, w \in FailWrites :
           add_event_from_email(u, e.subject, e.body, w)
    \/ \E u \in Users, w \in FailWrites :
           \E id \in EventIds(u) : mark_reminder_sent(u, id, w)
    \/ \E u \in Users, w \in FailWrites :
           \E id \in EventIds(u) : delete_event(u, id, w)
    \/ \E w \in FailWrites : clear_old_events(0, w)
    \/ \E u \in Users, w \in FailWrites : remove_user_events(u, w)
    \/ \E r \in Reads : load_events(r)

SpecFaulty == Init /\ [][NextFaulty]_vars

\* The event of a user's list that has the id
HasEvent(evs, user_id, event_id) ==
    \E i \in 1..Len(UserList(evs, user_id)) : UserList(evs, user_id)[i].id = event_id

\* C23: a read of events.json that fails, or a document that cannot be
\* parsed, leaves an empty store and load_events returns; whatever happens
\* to the write, add_event_from_email returns the new events and they are
\* in the store, mark_reminder_sent leaves the event flagged and
\* delete_event leaves it removed; and every write that succeeds leaves a
\* document that loads to the whole store, the changes of the writes that
\* failed before it included.
C23_FailuresNotFatal ==
    [][/\ ret'.op = "load_events" =>
            /\ ret'.val = "None"
            /\ (ret'.args[1] = "read fails" \/ file = Corrupt) => events' = <<>>
       /\ ret'.op = "add_event_from_email" =>
            \A i \in 1..Len(ret'.val) :
                /\ HasEvent(events', ret'.args[1], ret'.val[i].id)
                /\ ~HasEvent(events, ret'.args[1], ret'.val[i].id)
       /\ ret'.op = "mark_reminder_sent" =>
            \A i \in 1..Len(UserList(events', ret'.args[1])) :
                UserList(events', ret'.args[1])[i].id = ret'.args[2]
                    => \E j \in 1..i : /\ events'[ret'.args[1]][j].id = ret'.args[2]
                                        /\ events'[ret'.args[1]][j].reminder_sent
       /\ ret'.op = "delete_event" => ~HasEvent(events', ret'.args[1], ret'.args[2])
       /\ (file' # Corrupt /\ (file = Corrupt \/ file' # file))
              => Load(file') = events']_vars

\* New events are returned and stored while the write fails
C23_Witness ==
    /\ IsCall("add_event_from_email")
    /\ ret.val # <<>>
    /\ HasEvent(events, ret.args[1], ret.val[1].id)
    /\ file = Corrupt

-----------------------------------------------------------------------------
(* The dialogues (src/bot.py: setup_handlers and the handlers it names)    *)
(*                                                                         *)
(* conversations is the state conv_handler keeps for each user who is in   *)
(* the registration dialogue; context_user_data holds the keys that are    *)
(* set in context.user_data of each user (what was typed for a key is not  *)
(* kept: the credential the dialogue collects is the one of Credentials).  *)

\* The commands and texts a user sends.  The buttons that start a check of
\* the mail or open the settings are left out.
Commands == {"/start", "/cancel", "/delete"}

Buttons ==
    {"Nachat nastroiku", "Prodolzhit s tekushchimi dannymi", "Perenastroit zanovo",
     "Otmena", "Da, sohranit", "Vvesti zanovo", "Da, udalit vse dannye",
     "Net, otmena", "Vklyuchit avtoproverku", "Vyklyuchit avtoproverku"}

Typed == {"anna@example.com", "imap.example.com", "993 (SSL)", "secret"}

Inbox == Commands \cup Buttons \cup Typed

\* The state conv_handler holds for a user, "None" when it holds none
StateOf(convs, user_id) ==
    IF user_id \in DOMAIN convs THEN convs[user_id] ELSE "None"

\* context.user_data of a user: the keys that are set
DataOf(data, user_id) ==
    IF user_id \in DOMAIN data THEN data[user_id] ELSE {}

\* What a handler leaves: context.user_data, the stores, the value it
\* returns ("raised" when an exception left it) and the reply it sent
Outcome(ud, usrs, evs, next, reply) ==
    [ud |-> ud, users |-> usrs, events |-> evs, next |-> next, reply |-> reply]

\* "del event_manager.events[user_id]" when the user has events
WithoutUser(evs, user_id) == [u \in DOMAIN evs \ {user_id} |-> evs[u]]

\* start: context.user_data is cleared; a registered user is offered the
\* choices, and the flag is set after the reply was sent
start(ud, usrs, evs, user_id, send) ==
    IF get_user_data(usrs, user_id) # <<>>
    THEN IF send
         THEN Outcome({"user_id", "awaiting_start_choice"}, usrs, evs, "LOGIN",
                      "S vozvrashcheniem")
         ELSE Outcome({"user_id"}, usrs, evs, "raised", "none")
    ELSE IF send
         THEN Outcome({"user_id"}, usrs, evs, "LOGIN", "Vvedite vash email")
         ELSE Outcome({"user_id"}, usrs, evs, "raised", "none")

\* get_login: the choice of a registered user, or the e-mail address
get_login(ud, usrs, evs, user_id, text, send) ==
    IF "awaiting_start_choice" \in ud
    THEN CASE text = "Prodolzhit s tekushchimi dannymi" ->
                Outcome(ud \ {"awaiting_start_choice"}, usrs, evs,
                        IF send THEN "END" ELSE "raised", "Prodolzhaem rabotu")
           [] text = "Perenastroit zanovo" ->
                Outcome(ud \ {"awaiting_start_choice"}, delete_user(usrs, user_id),
                        WithoutUser(evs, user_id),
                        IF send THEN "LOGIN" ELSE "raised", "Nachinaem nastroiku zanovo")
           [] text = "Otmena" ->
                Outcome(ud \ {"awaiting_start_choice"}, usrs, evs,
                        IF send THEN "END" ELSE "raised", "Otmeneno")
           [] OTHER ->
                Outcome(ud, usrs, evs, IF send THEN "LOGIN" ELSE "raised",
                        "Vyberite odin iz variantov")
    ELSE IF text # "anna@example.com"
    THEN Outcome(ud, usrs, evs, IF send THEN "LOGIN" ELSE "raised",
                 "Eto ne pohozhe na email")
    ELSE Outcome(ud \cup {"login"}, usrs, evs,
                 IF send THEN "IMAP_SERVER" ELSE "raised", "Login sohranen")

\* get_imap_server: every text of five characters or more is taken
get_imap_server(ud, usrs, evs, text, send) ==
    Outcome(ud \cup {"imap_server"}, usrs, evs,
            IF send THEN "IMAP_PORT" ELSE "raised", "Server sohranen")

\* get_imap_port: "993 (SSL)" is a port, the other texts are not numbers
get_imap_port(ud, usrs, evs, text, send) ==
    IF text = "993 (SSL)"
    THEN Outcome(ud \cup {"imap_port"}, usrs, evs,
                 IF send THEN "PASSWORD" ELSE "raised", "Port sohranen")
    ELSE Outcome(ud, usrs, evs, IF send THEN "IMAP_PORT" ELSE "raised",
                 "Nekorrektnyi port")

\* get_password: the summary reads the keys of the earlier steps
get_password(ud, usrs, evs, text, send) ==
    IF {"login", "imap_server", "imap_port"} \subseteq ud
    THEN Outcome(ud \cup {"password"}, usrs, evs,
                 IF send THEN "CONFIRMATION" ELSE "raised", "Proverte dannye")
    ELSE Outcome(ud \cup {"password"}, usrs, evs, "raised", "none")

\* confirmation, in the dialogue: what it stores is Confirm's
confirmation_step(ud, usrs, evs, user_id, choice, send, session) ==
    CASE choice = "Da, sohranit" ->
            IF ~({"login", "password", "imap_server", "imap_port"} \subseteq ud)
            THEN Outcome(ud, usrs, evs, "raised", "none")
            ELSE IF send = "first fails"
            THEN Outcome(ud, usrs, evs, "raised", "none")
            ELSE Outcome(ud, Confirm(usrs, user_id, CHOOSE c \in Credentials : TRUE,
                                     session).users, evs,
                         IF send = "ok" THEN "END" ELSE "raised", "Podklyuchayus")
      [] choice = "Vvesti zanovo" ->
            Outcome(ud, usrs, evs, IF send = "ok" THEN "LOGIN" ELSE "raised",
                    "Vvedite vash email")
      [] choice = "Otmena" ->
            Outcome(ud, usrs, evs, IF send = "ok" THEN "END" ELSE "raised",
                    "Nastroika otmenena")
      [] OTHER ->
            Outcome(ud, usrs, evs, IF send = "ok" THEN "CONFIRMATION" ELSE "raised",
                    "Vyberite odin iz variantov")

\* delete_data: the flag is set after the warning was sent
delete_data(ud, usrs, evs, send) ==
    IF send
    THEN Outcome(ud \cup {"awaiting_delete_confirmation"}, usrs, evs, "None",
                 "Vy uvereny")
    ELSE Outcome(ud, usrs, evs, "raised", "none")

\* handle_delete_confirmation: the stores are changed before the reply,
\* the flag is removed after it
handle_delete_confirmation(ud, usrs, evs, user_id, choice, send) ==
    CASE choice = "Da, udalit vse dannye" ->
            IF get_user_data(usrs, user_id) # <<>>
            THEN Outcome(IF send THEN ud \ {"awaiting_delete_confirmation"} ELSE ud,
                         delete_user(usrs, user_id), WithoutUser(evs, user_id),
                         IF send THEN "None" ELSE "raised", "Dannye udaleny")
            ELSE Outcome(IF send THEN ud \ {"awaiting_delete_confirmation"} ELSE ud,
                         usrs, evs, IF send THEN "None" ELSE "raised",
                         "Oshibka udaleniya ili dannyh net")
      [] choice = "Net, otmena" ->
            Outcome(IF send THEN ud \ {"awaiting_delete_confirmation"} ELSE ud,
                    usrs, evs, IF send THEN "None" ELSE "raised", "Udalenie otmeneno")
      [] OTHER ->
            Outcome(ud \ {"awaiting_delete_confirmation"}, usrs, evs, "None", "none")

\* cancel: the flags are removed, then the reply is sent
cancel(ud, usrs, evs, send) ==
    Outcome(ud \ {"awaiting_start_choice", "awaiting_reregister_confirmation",
                  "awaiting_delete_confirmation"},
            usrs, evs, IF send THEN "END" ELSE "raised", "Nastroika otmenena")

\* handle_menu_button, for the texts of Inbox
handle_menu_button(ud, usrs, evs, user_id, text, send) ==
    IF "awaiting_delete_confirmation" \in ud
    THEN handle_delete_confirmation(ud, usrs, evs, user_id, text, send)
    ELSE CASE text = "Nachat nastroiku" -> start(ud, usrs, evs, user_id, send)
           [] text = "Vklyuchit avtoproverku" ->
                Outcome(ud, usrs, evs, IF send THEN "None" ELSE "raised",
                        "Avtoproverka vklyuchena")
           [] text = "Vyklyuchit avtoproverku" ->
                Outcome(ud, usrs, evs, IF send THEN "None" ELSE "raised",
                        "Avtoproverka vyklyuchena")
           [] OTHER ->
                Outcome(ud, usrs, evs, IF send THEN "None" ELSE "raised",
                        "Komanda ne raspoznana")

\* The handlers of the default group, in the order of add_handler: the
\* command handlers, conv_handler, and the handler of the menu buttons
\* (interval_handler and the callback handler take none of Inbox).
Handlers ==
    <<[kind |-> "command", command |-> "/start", callback |-> "start"],
      [kind |-> "command", command |-> "/delete", callback |-> "delete_data"],
      [kind |-> "command", command |-> "/cancel", callback |-> "cancel"],
      [kind |-> "conversation", command |-> "", callback |-> "conv_handler"],
      [kind |-> "text", command |-> "", callback |-> "handle_menu_button"]>>

\* ConversationHandler.check_update: the callback conv_handler has for the
\* message in the state it holds for the user, "" when it has none.  The
\* entry points are tried when there is no state and, with allow_reentry,
\* when there is one; then the handlers of the state; then the fallbacks.
ConversationCallback(state, text) ==
    CASE text \in {"/start", "Nachat nastroiku"} -> "start"
      [] state = "None" -> ""
      [] text \notin Commands ->
            (CASE state = "LOGIN" -> "get_login"
               [] state = "IMAP_SERVER" -> "get_imap_server"
               [] state = "IMAP_PORT" -> "get_imap_port"
               [] state = "PASSWORD" -> "get_password"
               [] state = "CONFIRMATION" -> "confirmation")
      [] text = "/cancel" -> "cancel"
      [] OTHER -> ""

\* handler.check_update(update)
Accepts(handler, state, text) ==
    CASE handler.kind = "command" -> text = handler.command
      [] handler.kind = "conversation" -> ConversationCallback(state, text) # ""
      [] handler.kind = "text" -> text \notin Commands

\* Application.process_update: the first handler of the group whose
\* check_update accepts the update handles it, and no other
Dispatch(state, text) ==
    LET k == CHOOSE i \in 1..Len(Handlers) :
                 /\ Accepts(Handlers[i], state, text)
                 /\ \A j \in 1..(i - 1) : ~Accepts(Handlers[j], state, text)
    IN  IF Handlers[k].kind = "conversation"
        THEN [callback |-> ConversationCallback(state, text), conversation |-> TRUE]
        ELSE [callback |-> Handlers[k].callback, conversation |-> FALSE]

\* The callback, run
Run(callback, ud, usrs, evs, user_id, text, send, session) ==
    CASE callback = "start" -> start(ud, usrs, evs, user_id, send = "ok")
      [] callback = "delete_data" -> delete_data(ud, usrs, evs, send = "ok")
      [] callback = "cancel" -> cancel(ud, usrs, evs, send = "ok")
      [] callback = "get_login" -> get_login(ud, usrs, evs, user_id, text, send = "ok")
      [] callback = "get_imap_server" -> get_imap_server(ud, usrs, evs, text, send = "ok")
      [] callback = "get_imap_port" -> get_imap_port(ud, usrs, evs, text, send = "ok")
      [] callback = "get_password" -> get_password(ud, usrs, evs, text, send = "ok")
      [] callback = "confirmation" ->
            confirmation_step(ud, usrs, evs, user_id, text, send, session)
      [] callback = "handle_menu_button" ->
            handle_menu_button(ud, usrs, evs, user_id, text, send = "ok")

\* conv_handler after its callback returned: the state is kept when the
\* callback raised, removed for END, and set otherwise
NextState(convs, user_id, next) ==
    CASE next = "raised" -> convs
      [] next = "END" -> [u \in DOMAIN convs \ {user_id} |-> convs[u]]
      [] OTHER -> [u \in DOMAIN convs \cup {user_id} |->
                      IF u = user_id THEN next ELSE convs[u]]

\* A user sends a message: the update is dispatched and its handler runs
Update(user_id, text, send, session) ==
    \E d \in {Dispatch(StateOf(conversations, user_id), text)} :
    \E r \in {Run(d.callback, DataOf(context_user_data, user_id), users, events,
                  user_id, text, send, session)} :
        /\ conversations' = IF d.conversation
                             THEN NextState(conversations, user_id, r.next)
                             ELSE conversations
        /\ context_user_data' =
               [u \in DOMAIN context_user_data \cup {user_id} |->
                   IF u = user_id THEN r.ud ELSE context_user_data[u]]
        /\ users' = r.users
        /\ users_file' = IF r.users # users THEN save_users(r.users, "ok")
                          ELSE users_file
        /\ events' = r.events
        /\ file' = IF r.events # events THEN save_events(r.events, "ok") ELSE file
        /\ ret' = Call("update", <<user_id, text, send, session>>,
                       [callback |-> d.callback, conversation |-> d.conversation,
                        state |-> StateOf(conversations, user_id),
                        awaiting |-> DataOf(context_user_data, user_id),
                        reply |-> IF r.next = "raised" THEN "none" ELSE r.reply])
        /\ UNCHANGED <<now, padsYear, chat, tasks, connection>>

\* The users who talk to the bot; the scan reads the mail of every user
Chats == {1}

\* The mailbox of the scan: one message with a date, every step works
ScanEnv ==
    [u \in Users |->
        Scenario("ok", <<PlainMail(<<"Meeting", "10.03.2025">>, <<"13 marta 2025">>, "OK")>>,
                 <<"ok">>, "ok")]

NextDialog ==
    \/ \E user_id \in Chats, text \in Inbox :
           Update(user_id, text, "ok", "ok")
    \/ \E user_id \in Chats, text \in Inbox, send \in Sends, session \in Logins :
           /\ send # "ok" \/ session # "ok"
           /\ send = "last fails" \/ session # "ok"
                  => Dispatch(StateOf(conversations, user_id), text).callback
                         = "confirmation"
           /\ Update(user_id, text, send, session)
    \/ \E ids \in Orders(DOMAIN users) : auto_check_all_users(ids, ScanEnv)

SpecDialog == InitClient /\ [][NextDialog]_vars

-----------------------------------------------------------------------------
(* C25, C26, C27: deletion, the switch of the periodic check, /start       *)

\* The stores hold nothing for the user
NoData(usrs, evs, user_id) ==
    /\ get_user_data(usrs, user_id) = <<>>
    /\ user_id \notin DOMAIN evs

\* The step is the handling of a message of the user, sent while the
\* confirmation of a deletion is awaited
AnswersDeletion(user_id) ==
    /\ ret'.op = "update"
    /\ ret'.args[1] = user_id
    /\ "awaiting_delete_confirmation" \in DataOf(context_user_data, user_id)

\* C25: when a user whose confirmation of a deletion is awaited sends the
\* text of the button that confirms it, the user store and the event store
\* hold nothing for the user afterwards; when the user sends any other
\* text, the stores keep the record and the events they hold for the user.
C25_DeletedOnConfirmationOnly ==
    [][\A user_id \in Chats :
          AnswersDeletion(user_id) =>
              IF ret'.args[2] = "Da, udalit vse dannye"
              THEN NoData(users', events', user_id)
              ELSE /\ get_user_data(users, user_id) # <<>>
                          => get_user_data(users', user_id) # <<>>
                   /\ user_id \in DOMAIN events
                          => /\ user_id \in DOMAIN events'
                             /\ events'[user_id] = events[user_id]]_vars

\* C26: the periodic scan that follows the reply "the periodic check is
\* off" to the button that switches it off does not check the user's
\* mailbox.
C26_SwitchedOffNotChecked ==
    [][(/\ ret.op = "update"
        /\ ret.args[2] = "Vyklyuchit avtoproverku"
        /\ ret.val.reply = "Avtoproverka vyklyuchena"
        /\ ret'.op = "auto_check_all_users")
       => \A i \in 1..Len(ret'.val.log) : ret'.val.log[i].user_id # ret.args[1]]_vars

\* C27: after /start was handled and answered, conv_handler holds LOGIN for
\* the user and gives the next plain text to get_login; after /cancel was
\* handled and answered while conv_handler held a state for the user, it
\* holds none.
C27_StartEntersCancelEnds ==
    [][\A user_id \in Chats :
          (/\ ret'.op = "update"
           /\ ret'.args[1] = user_id
           /\ ret'.val.reply # "none")
          => /\ ret'.args[2] = "/start"
                 => /\ StateOf(conversations', user_id) = "LOGIN"
                    /\ Dispatch(StateOf(conversations', user_id),
                                "anna@example.com").callback = "get_login"
             /\ (ret'.args[2] = "/cancel" /\ StateOf(conversations, user_id) # "None")
                 => StateOf(conversations', user_id) = "None"]_vars

-----------------------------------------------------------------------------
(* The reminders (src/bot.py: send_event_reminders)                        *)

\* Whether Telegram delivers a reminder
Deliveries == {"ok", "fails"}

\* "reminder_days = user_data.get("reminder_days", [7, 3, 1, 0])"
DefaultReminderDays == <<7, 3, 1, 0>>

\* The message that was delivered for a reminder
Reminded(reminder) ==
    [user_id |-> reminder[1], event_id |-> reminder[2].id, days_until |-> reminder[3]]

\* Mutant of RemindOne: the event is marked whether or not the message
\* could be sent.
RemindOneMarksFirst(evs, usrs, reminder, send) ==
    LET user_data == get_user_data(usrs, reminder[1])
    IN  IF user_data = <<>>
        THEN [events |-> evs, sent |-> FALSE]
        ELSE IF reminder[3] \notin Range(Setting(user_data[1], "reminder_days",
                                                 DefaultReminderDays))
        THEN [events |-> evs, sent |-> FALSE]
        ELSE [events |-> IF reminder[1] \in DOMAIN evs
                         THEN [evs EXCEPT ![reminder[1]] = MarkFirst(@, reminder[2].id)]
                         ELSE evs,
              sent |-> send = "ok"]

\* The body of the loop of send_event_reminders for one reminder: the
\* store it leaves and whether the message went out.  The event is marked
\* after send_message returned; an exception is caught and logged.
RemindOne(evs, usrs, reminder, send) ==
    LET user_data == get_user_data(usrs, reminder[1])
    IN  IF user_data = <<>>
        THEN [events |-> evs, sent |-> FALSE]
        ELSE IF reminder[3] \notin Range(Setting(user_data[1], "reminder_days",
                                                 DefaultReminderDays))
        THEN [events |-> evs, sent |-> FALSE]
        ELSE IF ParseStored(reminder[2].date, ReminderFormats) = <<>>
        THEN [events |-> evs, sent |-> FALSE]
        ELSE IF send # "ok"
        THEN [events |-> evs, sent |-> FALSE]
        ELSE [events |-> IF reminder[1] \in DOMAIN evs
                         THEN [evs EXCEPT ![reminder[1]] = MarkFirst(@, reminder[2].id)]
                         ELSE evs,
              sent |-> TRUE]

\* "for user_id, event, days_until in reminders"
RECURSIVE RemindLoop(_, _, _, _, _, _)
RECURSIVE AfterReminder(_, _, _, _, _, _)
RemindLoop(evs, usrs, reminders, sends, i, delivered) ==
    IF i > Len(reminders) THEN [events |-> evs, delivered |-> delivered]
    ELSE AfterReminder(RemindOne(evs, usrs, reminders[i], sends[i]),
                       usrs, reminders, sends, i, delivered)

AfterReminder(r, usrs, reminders, sends, i, delivered) ==
    RemindLoop(r.events, usrs, reminders, sends, i + 1,
               IF r.sent THEN Append(delivered, Reminded(reminders[i])) ELSE delivered)

\* The job: ret.args is <<what happens to each message, the reminders that
\* were due>>, ret.val the messages that went out
send_event_reminders(sends) ==
    \E reminders \in {events_for_reminder} :
    \E r \in {RemindLoop(events, users, reminders, sends, 1, <<>>)} :
        /\ events' = r.events
        /\ file' = IF r.delivered # <<>> THEN save_events(r.events, "ok") ELSE file
        /\ chat' = chat \o r.delivered
        /\ ret' = Call("send_event_reminders", <<sends, reminders>>, r.delivered)
        /\ UNCHANGED <<now, padsYear, users, users_file, conversations,
                       context_user_data, tasks, connection>>

\* The days the run lasts
MaxDays == 8

\* Midnight passes
Midnight ==
    /\ now < Today0 + MaxDays
    /\ now' = now + 1
    /\ UNCHANGED <<events, file, padsYear, users, users_file, bot_vars, connection, ret>>

\* The e-mail whose dates are in 1 day and in 8 days
ReminderMails == {Email(<<"Invoice">>, <<"2025-03-11", "18.03.2025">>)}

ReminderSettings == {<<7, 3>>, <<1>>}

\* Registration, the reminder days, new events, the job and the days
NextReminders ==
    \/ \E user_id \in Users, cred \in Credentials : AddUser(user_id, cred, "ok")
    \/ \E user_id \in Users, days \in ReminderSettings :
           UpdateUserSetting(user_id, "reminder_days", days, "ok")
    \/ \E user_id \in Users, e \in ReminderMails :
           add_event_from_email(user_id, e.subject, e.body, "ok")
    \/ \E sends \in [1..Len(events_for_reminder) -> Deliveries] :
           send_event_reminders(sends)
    \/ Midnight

SpecReminders == InitClient /\ [][NextReminders]_vars

-----------------------------------------------------------------------------
(* C28, C29: the reminders                                                 *)

\* The flag of the event of a user that has the id, FALSE when there is none
IsMarked(evs, user_id, event_id) ==
    \E i \in 1..Len(UserList(evs, user_id)) :
        /\ UserList(evs, user_id)[i].id = event_id
        /\ UserList(evs, user_id)[i].reminder_sent

\* The reminder of a run can go out: the user has a credential record whose
\* reminder days hold the number of days left, and Telegram delivers it
CanGoOut(usrs, reminder, send) ==
    /\ get_user_data(usrs, reminder[1]) # <<>>
    /\ reminder[3] \in Range(Setting(get_user_data(usrs, reminder[1])[1],
                                      "reminder_days", <<7, 3, 1, 0>>))
    /\ send = "ok"

\* C28: after a run of send_event_reminders an event that was due is marked
\* exactly when its message went out; an event whose message could not be
\* sent, whose user has no credential record or whose number of days left
\* is not among the user's reminder days keeps reminder_sent = False and
\* is among the reminders get_events_for_reminder returns next; no message
\* goes out for it, and one message goes out for each of the others.
C28_MarkedOnlyWhenSent ==
    [][ret'.op = "send_event_reminders" /\ ret'.at = now' =>
          /\ ret'.args[2] = events_for_reminder
          /\ \A i \in 1..Len(ret'.args[2]) :
                 LET reminder == ret'.args[2][i]
                     out == CanGoOut(users, reminder, ret'.args[1][i])
                 IN  /\ IsMarked(events', reminder[1], reminder[2].id) <=> out
                     /\ Reminded(reminder) \in Range(ret'.val) <=> out
                     /\ ~out => reminder \in Range(events_for_reminder')
          /\ chat' = chat \o ret'.val
          /\ \A j \in 1..Len(ret'.val) :
                 \E i \in 1..Len(ret'.args[2]) : ret'.val[j] = Reminded(ret'.args[2][i])]_vars

\* A run in which the message of a due event could not be sent: the event
\* is not marked and is due still
C28_Witness ==
    /\ IsCall("send_event_reminders")
    /\ Len(ret.args[2]) = 1
    /\ ret.args[1][1] = "fails"
    /\ get_user_data(users, ret.args[2][1][1]) # <<>>
    /\ ~IsMarked(events, ret.args[2][1][1], ret.args[2][1][2].id)
    /\ ret.args[2][1] \in Range(events_for_reminder)

-----------------------------------------------------------------------------
(* The coroutines at their awaits (src/bot.py: setup_jobs)                 *)
(*                                                                         *)
(* The two jobs and the handler of an update are coroutines of one event   *)
(* loop: each runs alone from one await to the next, and the others run    *)
(* while it waits for Telegram.  Updates are handled one after the other.  *)
(* Every reply is delivered and every write succeeds here.                 *)

\* The unread messages of a mailbox, as get_unread_emails returns them
UnreadMails ==
    {<<>>,
     <<Email(<<"Meeting", "10.03.2025">>, <<"13 marta 2025">>),
       Email(<<"Invoice">>, <<"2025-03-11", "18.03.2025">>)>>}

\* A coroutine that has returned or is suspended: the store it leaves and
\* its locals at the await
Suspended(evs, locals) == [events |-> evs, task |-> <<locals>>]

Returned(evs) == [events |-> evs, task |-> <<>>]

\* "for email_data in emails" of _check_user_emails up to the await of the
\* reply for a message, and "for user_id in list(user_manager.users.keys())"
\* of auto_check_all_users up to the first message of the next user
RECURSIVE ScanUsers(_, _, _, _)
ScanMessages(evs, usrs, user_id, emails, ids, env) ==
    IF emails = <<>> THEN ScanUsers(evs, usrs, ids, env)
    ELSE Suspended(AddFromEmail(evs, user_id, Head(emails).subject, Head(emails).body)[1],
                   [pos |-> "message", user_id |-> user_id,
                    emails |-> Tail(emails), ids |-> ids])

ScanUsers(evs, usrs, ids, env) ==
    IF ids = <<>> THEN Returned(evs)
    ELSE IF get_user_data(usrs, ToInt(Head(ids))) = <<>>
    THEN ScanUsers(evs, usrs, Tail(ids), env)
    ELSE IF ~Setting(get_user_data(usrs, ToInt(Head(ids)))[1], "autocheck_enabled", TRUE)
    THEN ScanUsers(evs, usrs, Tail(ids), env)
    ELSE IF ~get_user_data(usrs, ToInt(Head(ids)))[1].notifications_enabled
    THEN ScanUsers(evs, usrs, Tail(ids), env)
    ELSE ScanMessages(evs, usrs, ToInt(Head(ids)), env[ToInt(Head(ids))],
                      Tail(ids), env)

\* What a step of a coroutine leaves in the event store and its file
Stores(r) ==
    /\ events' = r.events
    /\ file' = IF r.events # events THEN save_events(r.events, "ok") ELSE file

\* The job auto_check_all_users starts and runs to its first await
scan_start(ids, env) ==
    /\ tasks.scan = <<>>
    /\ \E r \in {ScanUsers(events, users, ids, env)} :
           /\ Stores(r)
           /\ tasks' = [tasks EXCEPT !.scan = r.task]
           /\ ret' = Call("scan_start", <<ids>>, r.task)
    /\ UNCHANGED <<now, padsYear, users, users_file, conversations,
                   context_user_data, chat, connection>>

\* The reply was delivered: the job goes on to its next await
scan_resume(env) ==
    /\ tasks.scan # <<>>
    /\ \E r \in {ScanMessages(events, users, tasks.scan[1].user_id,
                               tasks.scan[1].emails, tasks.scan[1].ids, env)} :
           /\ Stores(r)
           /\ tasks' = [tasks EXCEPT !.scan = r.task]
           /\ ret' = Call("scan_resume", <<tasks.scan[1].user_id>>, r.task)
    /\ UNCHANGED <<now, padsYear, users, users_file, conversations,
                   context_user_data, chat, connection>>

\* check_email: a registered user is told that the mail is being checked;
\* the handler waits for that reply before it calls _check_user_emails
check_start(user_id) ==
    /\ tasks.check = <<>>
    /\ tasks' = IF get_user_data(users, user_id) # <<>>
                 THEN [tasks EXCEPT !.check = <<[pos |-> "announce", user_id |-> user_id,
                                                 emails |-> <<>>, ids |-> <<>>]>>]
                 ELSE tasks
    /\ ret' = Call("check_start", <<user_id>>, get_user_data(users, user_id) # <<>>)
    /\ UNCHANGED <<events, file, now, padsYear, users, users_file, conversations,
                   context_user_data, chat, connection>>

\* _check_user_emails of the manual check, from the await it waits at to
\* the next: after the first it reads the user's record and the mailbox
check_resume(mailbox) ==
    /\ tasks.check # <<>>
    /\ \E r \in {IF tasks.check[1].pos = "message"
                  THEN ScanMessages(events, users, tasks.check[1].user_id,
                                    tasks.check[1].emails, <<>>, <<>>)
                  ELSE IF get_user_data(users, tasks.check[1].user_id) = <<>>
                  THEN Returned(events)
                  ELSE ScanMessages(events, users, tasks.check[1].user_id,
                                    mailbox, <<>>, <<>>)} :
           /\ Stores(r)
           /\ tasks' = [tasks EXCEPT !.check = r.task]
           /\ ret' = Call("check_resume", <<tasks.check[1].user_id>>, r.task)
    /\ UNCHANGED <<now, padsYear, users, users_file, conversations,
                   context_user_data, chat, connection>>

\* Mutant of Marked: the user's list is written back as the reminder's
\* event alone, the copy the job read before it waited.
MarkedInCopy(evs, reminder) ==
    IF reminder[1] \in DOMAIN evs
    THEN [evs EXCEPT ![reminder[1]] = <<[reminder[2] EXCEPT !.reminder_sent = TRUE]>>]
    ELSE evs

\* "event_manager.mark_reminder_sent(user_id, event["id"])" on the store as
\* it is when send_message has returned
Marked(evs, reminder) ==
    IF reminder[1] \in DOMAIN evs
    THEN [evs EXCEPT ![reminder[1]] = MarkFirst(@, reminder[2].id)]
    ELSE evs

\* "for user_id, event, days_until in reminders" up to the await of
\* send_message: the reminders left, the first of them being sent
RECURSIVE Awaited(_, _, _)
Awaited(evs, usrs, reminders) ==
    IF reminders = <<>> THEN <<>>
    ELSE IF RemindOne(evs, usrs, Head(reminders), "ok").sent THEN <<reminders>>
    ELSE Awaited(evs, usrs, Tail(reminders))

\* The reminders that go out before the job stops being started
MaxChat == 1

\* The job send_event_reminders starts: it reads the reminders that are due
\* and runs to its first await
remind_start ==
    /\ tasks.reminders = <<>>
    /\ Len(chat) < MaxChat
    /\ tasks' = [tasks EXCEPT !.reminders = Awaited(events, users, events_for_reminder)]
    /\ ret' = Call("remind_start", <<events_for_reminder>>, tasks'.reminders)
    /\ UNCHANGED <<events, file, now, padsYear, users, users_file, conversations,
                   context_user_data, chat, connection>>

\* send_message returned or raised: the event is marked when it returned,
\* and the job goes on to its next await
remind_resume(send) ==
    /\ tasks.reminders # <<>>
    /\ \E reminder \in {Head(tasks.reminders[1])} :
       \E evs \in {IF send = "ok" THEN Marked(events, reminder) ELSE events} :
           /\ events' = evs
           /\ file' = IF send = "ok" /\ reminder[1] \in DOMAIN events
                      THEN save_events(evs, "ok") ELSE file
           /\ chat' = IF send = "ok" THEN Append(chat, Reminded(reminder)) ELSE chat
           /\ tasks' = [tasks EXCEPT !.reminders =
                           Awaited(evs, users, Tail(tasks.reminders[1]))]
           /\ ret' = Call("remind_resume", <<send, reminder>>, tasks'.reminders)
    /\ UNCHANGED <<now, padsYear, users, users_file, conversations,
                   context_user_data, connection>>

\* The handlers that delete a user's data, when the user gives the answer
\* they wait for: handle_delete_confirmation and "Perenastroit zanovo" of
\* get_login.  No other update is handled while check_email is running.
delete_answer(user_id, callback) ==
    /\ tasks.check = <<>>
    /\ \E r \in {IF callback = "get_login"
                  THEN get_login({"awaiting_start_choice"}, users, events, user_id,
                                 "Perenastroit zanovo", TRUE)
                  ELSE handle_delete_confirmation({"awaiting_delete_confirmation"},
                                                  users, events, user_id,
                                                  "Da, udalit vse dannye", TRUE)} :
           /\ users' = r.users
           /\ users_file' = IF r.users # users THEN save_users(r.users, "ok")
                             ELSE users_file
           /\ events' = r.events
           /\ file' = IF r.events # events THEN save_events(r.events, "ok") ELSE file
           /\ ret' = Call("delete_answer", <<user_id, callback>>, r.reply)
    /\ UNCHANGED <<now, padsYear, bot_vars, connection>>

\* The handlers whose answers delete
Deleting == {"get_login", "handle_delete_confirmation"}

\* What the mail server holds for the users at a moment: the mail of the
\* users who do not talk to the bot has no dates
MailServer ==
    {[u \in Users |-> IF u \in Chats THEN dated ELSE undated] :
        dated \in UnreadMails, undated \in {<<>>, <<Undated>>}}

\* Registration, deletion, the manual check and the two jobs, each step
\* running from one await to the next
NextOverlap ==
    \/ \E user_id \in Users, cred \in Credentials :
           tasks.check = <<>> /\ AddUser(user_id, cred, "ok")
    \/ \E user_id \in Users, callback \in Deleting : delete_answer(user_id, callback)
    \/ \E ids \in Orders(DOMAIN users), env \in MailServer : scan_start(ids, env)
    \/ \E env \in MailServer : scan_resume(env)
    \/ \E user_id \in Chats : check_start(user_id)
    \/ \E mailbox \in UnreadMails : check_resume(mailbox)
    \/ remind_start
    \/ \E send \in Deliveries : remind_resume(send)

SpecOverlap == InitClient /\ [][NextOverlap]_vars

-----------------------------------------------------------------------------
(* C30: events only of registered users                                    *)

\* C30: in every state that registrations, deletions, re-configurations,
\* manual checks and the two jobs can reach in any interleaving, every user
\* who has events in the event store has a record in the user store
C30_EventsOnlyOfRegistered ==
    \A user_id \in DOMAIN events :
        events[user_id] # <<>> => get_user_data(users, user_id) # <<>>

-----------------------------------------------------------------------------
(* C24: the jobs and the manual check overlap                              *)

\* The events the first list holds are in the second, at their places, and
\* none of them has lost its flag
KeptIn(before, after) ==
    /\ Len(before) <= Len(after)
    /\ \A i \in 1..Len(before) :
           /\ after[i].id = before[i].id
           /\ before[i].reminder_sent => after[i].reminder_sent

\* C24: when the scan, the reminder job and a manual check run between each
\* other's awaits, no step of one of them loses what another has stored:
\* every event in the store stays there with its flag, the event a reminder
\* went out for is flagged, and the file holds the same as the store
C24_NoMutationLost ==
    [][/\ ret'.op # "delete_answer" =>
            \A user_id \in DOMAIN events :
                /\ user_id \in DOMAIN events'
                /\ KeptIn(events[user_id], events'[user_id])
       /\ (ret'.op = "remind_resume" /\ ret'.args[1] = "ok"
               /\ \E i \in 1..Len(UserList(events, ret'.args[2][1])) :
                      UserList(events, ret'.args[2][1])[i].id = ret'.args[2][2].id)
            => IsMarked(events', ret'.args[2][1], ret'.args[2][2].id)
       /\ events' # events => Load(file') = events']_vars

\* A reminder for an event of the first message went out while the scan was
\* waiting, and the events of the second message, which the job has not
\* read, were appended while the job was waiting: the flag and the events
\* are in the store and in the file
C24_Witness ==
    /\ ret.op = "remind_resume" /\ ret.args[1] = "ok"
    /\ tasks.scan # <<>> /\ tasks.reminders # <<>>
    /\ IsMarked(events, ret.args[2][1], ret.args[2][2].id)
    /\ \E i \in 1..Len(UserList(events, ret.args[2][1])) :
           /\ UserList(events, ret.args[2][1])[i].title = <<"Invoice">>
           /\ \A k \in 1..Len(tasks.reminders[1]) :
                  tasks.reminders[1][k][2].title # <<"Invoice">>
    /\ Load(file) = events

====
